---------------------------- MODULE Spec2Model ----------------------------
(* The configuration pipeline of gui-logiops: the libconfig tokenizer and  *)
(* generic parser (libconfigParser), the domain mapper and the generator   *)
(* (configParser) and the device validator (validation.ts).                *)
(*                                                                         *)
(* A text is a sequence of one-character strings; columns and token        *)
(* indexes are 0-based as in the source.                                   *)
EXTENDS Integers, Sequences, FiniteSets, TLC

VARIABLES
  origin,     \* how the input text was obtained (raw text, generated, hand-written)
  content,    \* the text handed to parseConfigFile
  lines,      \* tokenize: content.split('\n')
  lineNum,    \* tokenize: index of the current line (0-based)
  column,     \* tokenize: index of the current character (0-based)
  tokens,     \* tokenize: the tokens pushed so far
  pc,         \* position of the pipeline
  parsed,     \* outcome of parseConfigFile(content)
  syntax,     \* result of validateConfigSyntax(content)
  validation, \* results of validateDevice on the parsed devices
  regenerated, \* generateConfigFile of the parsed configuration
  reparsed,   \* outcome of parseConfigFile(regenerated)
  checked,    \* a validator, the value it is called on and its result
  app,        \* the AppState of appReducer and the last action dispatched
  manager,    \* a FileManager, the preferences file and the calls in progress
  calls       \* the generic parser: the activations of parseValue, parseObject, parseArray

\* the configuration pipeline
pipeline ==
  <<origin, content, lines, lineNum, column, tokens, pc, parsed, syntax, validation,
    regenerated, reparsed>>

\* the validators, the state container, the file manager and the stepped parser
components == <<checked, app, manager, calls>>

vars == <<pipeline, components>>

----------------------------------------------------------------------------
(* Characters *)

Digits == {"0", "1", "2", "3", "4", "5", "6", "7", "8", "9"}

LowerLetters ==
  {"a", "b", "c", "d", "e", "f", "g", "h", "i", "j", "k", "l", "m",
   "n", "o", "p", "q", "r", "s", "t", "u", "v", "w", "x", "y", "z"}

UpperLetters ==
  {"A", "B", "C", "D", "E", "F", "G", "H", "I", "J", "K", "L", "M",
   "N", "O", "P", "Q", "R", "S", "T", "U", "V", "W", "X", "Y", "Z"}

\* /\s/
IsSpace(c) == c \in {" ", "\t", "\r", "\n", "\f"}

\* /\d/
IsDigit(c) == c \in Digits

\* /[0-9a-fA-F]/
IsHexDigit(c) ==
  c \in Digits \cup {"a", "b", "c", "d", "e", "f", "A", "B", "C", "D", "E", "F"}

\* /[\d\.]/
IsDecimalChar(c) == c \in Digits \cup {"."}

\* /[a-zA-Z_]/
IsIdentStart(c) == c \in LowerLetters \cup UpperLetters \cup {"_"}

\* /[a-zA-Z0-9_]/
IsIdentChar(c) == c \in LowerLetters \cup UpperLetters \cup Digits \cup {"_"}

\* '=:;,{}()'.includes(char)
IsPunct(c) == c \in {"=", ":", ";", ",", "{", "}", "(", ")"}

\* line[i] of a JavaScript string: undefined outside the string
NoChar == "undefined"

At(line, i) == IF i >= 0 /\ i < Len(line) THEN line[i + 1] ELSE NoChar

\* String.prototype.toLowerCase on one character
LowerOf(c) ==
  CASE c = "A" -> "a" [] c = "B" -> "b" [] c = "C" -> "c" [] c = "D" -> "d"
    [] c = "E" -> "e" [] c = "F" -> "f" [] c = "G" -> "g" [] c = "H" -> "h"
    [] c = "I" -> "i" [] c = "J" -> "j" [] c = "K" -> "k" [] c = "L" -> "l"
    [] c = "M" -> "m" [] c = "N" -> "n" [] c = "O" -> "o" [] c = "P" -> "p"
    [] c = "Q" -> "q" [] c = "R" -> "r" [] c = "S" -> "s" [] c = "T" -> "t"
    [] c = "U" -> "u" [] c = "V" -> "v" [] c = "W" -> "w" [] c = "X" -> "x"
    [] c = "Y" -> "y" [] c = "Z" -> "z" [] OTHER -> c

toLowerCase(s) == [i \in 1..Len(s) |-> LowerOf(s[i])]

RECURSIVE TrimLeft(_)
TrimLeft(s) == IF s # <<>> /\ IsSpace(Head(s)) THEN TrimLeft(Tail(s)) ELSE s

RECURSIVE TrimRight(_)
TrimRight(s) ==
  IF s # <<>> /\ IsSpace(s[Len(s)]) THEN TrimRight(SubSeq(s, 1, Len(s) - 1)) ELSE s

\* String.prototype.trim
trim(s) == TrimRight(TrimLeft(s))

\* String.prototype.startsWith
startsWith(s, p) == Len(s) >= Len(p) /\ SubSeq(s, 1, Len(p)) = p

\* const x = e; F(x): the value e is computed once and then used by F
Bind(e, F(_)) == CHOOSE y \in {F(x) : x \in {e}} : TRUE

----------------------------------------------------------------------------
(* libconfigParser: tokenize *)

\* the positions of the line feeds of s
LineFeeds(s) == {i \in 1..Len(s) : s[i] = "\n"}

\* the position of the k-th line feed of s
LineFeed(s, k) ==
  CHOOSE p \in LineFeeds(s) : Cardinality({q \in LineFeeds(s) : q <= p}) = k

\* content.split('\n'): the pieces between the line feeds, one more than
\* there are line feeds
split(s) ==
  LET n == Cardinality(LineFeeds(s)) IN
  [k \in 1..(n + 1) |->
     SubSeq(s,
            IF k = 1 THEN 1 ELSE LineFeed(s, k - 1) + 1,
            IF k = n + 1 THEN Len(s) ELSE LineFeed(s, k) - 1)]

Token(type, value, line, col) ==
  [type |-> type, value |-> value, line |-> line, column |-> col]

\* the escape switch of the string literal loop
Unescape(c) ==
  CASE c = "n" -> "\n" [] c = "t" -> "\t" [] c = "r" -> "\r" [] OTHER -> c

\* the inner loop of a string literal: up to the closing quote or end of line
RECURSIVE ScanString(_, _, _)
ScanString(line, col, value) ==
  IF col < Len(line) /\ At(line, col) # "\""
  THEN IF At(line, col) = "\\" /\ col + 1 < Len(line)
       THEN ScanString(line, col + 2, Append(value, Unescape(At(line, col + 1))))
       ELSE ScanString(line, col + 1, Append(value, At(line, col)))
  ELSE [column |-> col, value |-> value]

\* while (column < line.length && /[0-9a-fA-F]/.test(line[column]))
RECURSIVE ScanHex(_, _, _)
ScanHex(line, col, value) ==
  IF col < Len(line) /\ IsHexDigit(At(line, col))
  THEN ScanHex(line, col + 1, Append(value, At(line, col)))
  ELSE [column |-> col, value |-> value]

\* while (column < line.length && /[\d\.]/.test(line[column]))
RECURSIVE ScanDecimal(_, _, _)
ScanDecimal(line, col, value) ==
  IF col < Len(line) /\ IsDecimalChar(At(line, col))
  THEN ScanDecimal(line, col + 1, Append(value, At(line, col)))
  ELSE [column |-> col, value |-> value]

\* while (column < line.length && /[a-zA-Z0-9_]/.test(line[column]))
RECURSIVE ScanIdent(_, _, _)
ScanIdent(line, col, value) ==
  IF col < Len(line) /\ IsIdentChar(At(line, col))
  THEN ScanIdent(line, col + 1, Append(value, At(line, col)))
  ELSE [column |-> col, value |-> value]

\* which branch of the scanning loop the character at column takes
Branch(line, col) ==
  LET char == At(line, col) IN
  IF IsSpace(char) THEN "whitespace"
  ELSE IF char = "/" /\ At(line, col + 1) = "/" THEN "comment"
  ELSE IF char = "#" THEN "comment"
  ELSE IF char = "\"" THEN "string"
  ELSE IF IsDigit(char) \/ (char = "0" /\ At(line, col + 1) = "x") THEN "number"
  ELSE IF IsIdentStart(char) THEN "identifier"
  ELSE IF IsPunct(char) THEN "punct"
  ELSE "unknown"

\* One pass through the body of the scanning loop. brk: the pass left the
\* loop by break (a comment skips the rest of the line).
Scanned(brk, col, toks) == [brk |-> brk, column |-> col, tokens |-> toks]

StepWhitespace(line, ln, col, toks) == Scanned(FALSE, col + 1, toks)

StepComment(line, ln, col, toks) == Scanned(TRUE, col, toks)

StepString(line, ln, col, toks) ==
  LET s == ScanString(line, col + 1, <<>>)
      after == IF s.column < Len(line) THEN s.column + 1 ELSE s.column
  IN Scanned(FALSE, after, Append(toks, Token("string", s.value, ln + 1, col + 1)))

StepNumber(line, ln, col, toks) ==
  LET s == IF At(line, col) = "0" /\ At(line, col + 1) = "x"
           THEN ScanHex(line, col + 2, <<"0", "x">>)
           ELSE ScanDecimal(line, col, <<>>)
  IN Scanned(FALSE, s.column, Append(toks, Token("number", s.value, ln + 1, col + 1)))

StepIdentifier(line, ln, col, toks) ==
  LET s == ScanIdent(line, col, <<>>)
      type == IF s.value = <<"t", "r", "u", "e">> \/ s.value = <<"f", "a", "l", "s", "e">>
              THEN "boolean" ELSE "identifier"
  IN Scanned(FALSE, s.column, Append(toks, Token(type, s.value, ln + 1, col + 1)))

\* StepPunct without the column++ that follows the push
StepPunct_NoAdvance(line, ln, col, toks) ==
  LET char == At(line, col)
      type == IF char = "=" \/ char = ":" THEN "operator" ELSE "delimiter"
  IN Scanned(FALSE, col, Append(toks, Token(type, <<char>>, ln + 1, col + 1)))

StepPunct(line, ln, col, toks) ==
  LET char == At(line, col)
      type == IF char = "=" \/ char = ":" THEN "operator" ELSE "delimiter"
  IN Scanned(FALSE, col + 1, Append(toks, Token(type, <<char>>, ln + 1, col + 1)))

StepUnknown(line, ln, col, toks) == Scanned(FALSE, col + 1, toks)

ScanStep(line, ln, col, toks) ==
  LET b == Branch(line, col) IN
  CASE b = "whitespace" -> StepWhitespace(line, ln, col, toks)
    [] b = "comment" -> StepComment(line, ln, col, toks)
    [] b = "string" -> StepString(line, ln, col, toks)
    [] b = "number" -> StepNumber(line, ln, col, toks)
    [] b = "identifier" -> StepIdentifier(line, ln, col, toks)
    [] b = "punct" -> StepPunct(line, ln, col, toks)
    [] OTHER -> StepUnknown(line, ln, col, toks)

\* while (column < line.length) { ... } for one line
RECURSIVE ScanLine(_, _, _, _)
ScanLine(line, ln, col, toks) ==
  IF col < Len(line)
  THEN Bind(ScanStep(line, ln, col, toks),
            LAMBDA s : IF s.brk THEN s.tokens
                       ELSE ScanLine(line, ln, s.column, s.tokens))
  ELSE toks

\* for (let lineNum = 0; lineNum < lines.length; lineNum++)
RECURSIVE ScanLines(_, _, _)
ScanLines(ls, ln, toks) ==
  IF ln < Len(ls)
  THEN Bind(ScanLine(ls[ln + 1], ln, 0, toks), LAMBDA t : ScanLines(ls, ln + 1, t))
  ELSE toks

tokenize(s) == Bind(split(s), LAMBDA ls : ScanLines(ls, 0, <<>>))

----------------------------------------------------------------------------
(* Values of the generic tree, tagged by their JavaScript type *)

Undefined == [t |-> "undefined"]

StrV(s) == [t |-> "string", s |-> s]

\* a number: its integer part and the digits of its fraction
\* (no trailing zero). In range for the digit strings of this model.
NumV(int, frac) == [t |-> "number", int |-> int, frac |-> frac]

BoolV(b) == [t |-> "boolean", b |-> b]

\* an object: its members in insertion order
ObjV(m) == [t |-> "object", m |-> m]

ArrV(e) == [t |-> "array", e |-> e]

\* obj[key] = value: replaces the value of a key already there, in place
SetKey(m, key, value) ==
  IF \E i \in 1..Len(m) : m[i].k = key
  THEN [i \in 1..Len(m) |-> IF m[i].k = key THEN [k |-> key, v |-> value] ELSE m[i]]
  ELSE Append(m, [k |-> key, v |-> value])

\* data.key: undefined on a missing key and on a value that is no object
\* (none of the keys read is a property of a string, number, boolean or array)
Get(data, key) ==
  IF data.t = "object" /\ \E i \in 1..Len(data.m) : data.m[i].k = key
  THEN data.m[CHOOSE i \in 1..Len(data.m) : data.m[i].k = key].v
  ELSE Undefined

\* ToBoolean
Truthy(v) ==
  IF v.t = "undefined" \/ v.t = "null" \/ v.t = "NaN" THEN FALSE
  ELSE IF v.t = "string" THEN v.s # <<>>
  ELSE IF v.t = "number" THEN v.int # 0 \/ v.frac # <<>>
  ELSE IF v.t = "boolean" THEN v.b
  ELSE TRUE

DigitValue(c) ==
  CASE c = "0" -> 0 [] c = "1" -> 1 [] c = "2" -> 2 [] c = "3" -> 3 [] c = "4" -> 4
    [] c = "5" -> 5 [] c = "6" -> 6 [] c = "7" -> 7 [] c = "8" -> 8 [] c = "9" -> 9

DigitChar(d) ==
  CASE d = 0 -> "0" [] d = 1 -> "1" [] d = 2 -> "2" [] d = 3 -> "3" [] d = 4 -> "4"
    [] d = 5 -> "5" [] d = 6 -> "6" [] d = 7 -> "7" [] d = 8 -> "8" [] d = 9 -> "9"

RECURSIVE DigitsToInt(_)
DigitsToInt(s) ==
  IF s = <<>> THEN 0 ELSE 10 * DigitsToInt(SubSeq(s, 1, Len(s) - 1)) + DigitValue(s[Len(s)])

RECURSIVE IntToChars(_)
IntToChars(n) == IF n < 10 THEN <<DigitChar(n)>> ELSE Append(IntToChars(n \div 10), DigitChar(n % 10))

RECURSIVE TakeDigits(_)
TakeDigits(s) == IF s # <<>> /\ IsDigit(Head(s)) THEN <<Head(s)>> \o TakeDigits(Tail(s)) ELSE <<>>

RECURSIVE StripZeros(_)
StripZeros(s) == IF s # <<>> /\ s[Len(s)] = "0" THEN StripZeros(SubSeq(s, 1, Len(s) - 1)) ELSE s

\* parseFloat of a decimal number token (digits and dots, a digit first):
\* the longest prefix digits[.digits] is the number
parseFloat(s) ==
  LET ip == TakeDigits(s)
      rest == SubSeq(s, Len(ip) + 1, Len(s))
      fp == IF rest # <<>> /\ Head(rest) = "." THEN TakeDigits(Tail(rest)) ELSE <<>>
  IN NumV(DigitsToInt(ip), StripZeros(fp))

RECURSIVE String(_)
RECURSIVE JoinValues(_)
\* Array.prototype.join(',') of the elements' strings
JoinValues(e) ==
  IF e = <<>> THEN <<>>
  ELSE IF Len(e) = 1 THEN String(e[1])
  ELSE String(e[1]) \o <<",">> \o JoinValues(Tail(e))

\* String(value)
String(v) ==
  IF v.t = "string" THEN v.s
  ELSE IF v.t = "number"
    THEN IntToChars(v.int) \o (IF v.frac = <<>> THEN <<>> ELSE <<".">> \o v.frac)
  ELSE IF v.t = "boolean"
    THEN (IF v.b THEN <<"t", "r", "u", "e">> ELSE <<"f", "a", "l", "s", "e">>)
  ELSE IF v.t = "array" THEN JoinValues(v.e)
  ELSE IF v.t = "object"
    THEN <<"[", "o", "b", "j", "e", "c", "t", " ", "O", "b", "j", "e", "c", "t", "]">>
  ELSE IF v.t = "NaN" THEN <<"N", "a", "N">>
  ELSE IF v.t = "null" THEN <<"n", "u", "l", "l">>
  ELSE <<"u", "n", "d", "e", "f", "i", "n", "e", "d">>

\* the number NaN
NaN == [t |-> "NaN"]

HexDigitValue(c) ==
  IF IsDigit(c) THEN DigitValue(c)
  ELSE CASE LowerOf(c) = "a" -> 10 [] LowerOf(c) = "b" -> 11 [] LowerOf(c) = "c" -> 12
         [] LowerOf(c) = "d" -> 13 [] LowerOf(c) = "e" -> 14 [] LowerOf(c) = "f" -> 15

RECURSIVE HexToInt(_)
HexToInt(s) ==
  IF s = <<>> THEN 0 ELSE 16 * HexToInt(SubSeq(s, 1, Len(s) - 1)) + HexDigitValue(s[Len(s)])

\* StringToNumber of a text without sign, exponent or Infinity: white space
\* around it is dropped; the empty text is 0; digits[.digits], digits. and
\* .digits are decimal; 0x or 0X and hex digits are hexadecimal; the rest is NaN
StringToNumber(s) ==
  LET text == trim(s)
      ip == TakeDigits(text)
      rest == SubSeq(text, Len(ip) + 1, Len(text))
      fp == IF rest # <<>> /\ Head(rest) = "." THEN TakeDigits(Tail(rest)) ELSE <<>>
  IN IF text = <<>> THEN NumV(0, <<>>)
     ELSE IF Len(text) > 2 /\ text[1] = "0" /\ LowerOf(text[2]) = "x"
             /\ \A i \in 3..Len(text) : IsHexDigit(text[i])
     THEN NumV(HexToInt(SubSeq(text, 3, Len(text))), <<>>)
     ELSE IF rest = <<>> \/ (Head(rest) = "." /\ Len(rest) = 1 + Len(fp) /\ Len(ip) + Len(fp) > 0)
     THEN NumV(DigitsToInt(ip), StripZeros(fp))
     ELSE NaN

\* Number(value)
Number(v) ==
  IF v.t = "number" \/ v.t = "NaN" THEN v
  ELSE IF v.t = "boolean" THEN NumV(IF v.b THEN 1 ELSE 0, <<>>)
  ELSE IF v.t = "string" THEN StringToNumber(v.s)
  ELSE IF v.t = "array" THEN StringToNumber(String(v))
  ELSE IF v.t = "null" THEN NumV(0, <<>>)
  ELSE NaN

\* Boolean(value)
Boolean(v) == BoolV(Truthy(v))

\* Array.isArray(value)
IsArray(v) == v.t = "array"

\* object.key of a typed object whose property may be missing
Opt(object, key) == IF key \in DOMAIN object THEN object[key] ELSE Undefined

\* { ...object, key: value }
With(object, key, value) == (key :> value) @@ object

\* an object literal of one, two and three properties
Obj1(k1, v1) == ObjV(<<[k |-> k1, v |-> v1]>>)

Obj2(k1, v1, k2, v2) == ObjV(<<[k |-> k1, v |-> v1], [k |-> k2, v |-> v2]>>)

Obj3(k1, v1, k2, v2, k3, v3) ==
  ObjV(<<[k |-> k1, v |-> v1], [k |-> k2, v |-> v2], [k |-> k3, v |-> v3]>>)

\* object[key] = value on an object value
Put(object, key, value) == ObjV(SetKey(object.m, key, value))

----------------------------------------------------------------------------
(* Errors: a message is the sequence of the pieces it is built from *)

Lit(s) == [lit |-> s]

Chars(s) == [chars |-> s]

Num(n) == [num |-> n]

\* new Error(message)
Error(message) == [name |-> "Error", message |-> message]

\* a TypeError raised by the runtime
TypeError(message) == [name |-> "TypeError", message |-> message]

\* class ConfigParseError: line and column are optional constructor arguments
ConfigParseError(message, line, col) ==
  [name |-> "ConfigParseError", message |-> message, line |-> line, column |-> col]

Return(value, nextIndex) == [ok |-> TRUE, value |-> value, nextIndex |-> nextIndex]

Throw(err) == [ok |-> FALSE, err |-> err]

----------------------------------------------------------------------------
(* libconfigParser: the generic parser *)

IsDelimiter(token, c) == token.type = "delimiter" /\ token.value = <<c>>

RECURSIVE parseValue(_, _)
RECURSIVE parseObjectFrom(_, _, _)
RECURSIVE parseArrayFrom(_, _, _)

\* index, moved past the token at index when that token is one of seps
SkipOptional(toks, index, seps) ==
  IF index < Len(toks) /\ \E c \in seps : IsDelimiter(toks[index + 1], c)
  THEN index + 1 ELSE index

\* the loop of parseObject, obj being the members read so far
parseObjectFrom(toks, index, obj) ==
  IF index < Len(toks)
  THEN LET token == toks[index + 1] IN
       IF IsDelimiter(token, "}") THEN Return(ObjV(obj), index + 1)
       ELSE IF token.type = "identifier"
       THEN IF \/ index + 1 >= Len(toks)
               \/ toks[index + 2].type # "operator"
               \/ (toks[index + 2].value # <<":">> /\ toks[index + 2].value # <<"=">>)
            THEN Throw(Error(<<Lit("Expected : or = after "), Chars(token.value),
                               Lit(" at line "), Num(token.line)>>))
            ELSE Bind(parseValue(toks, index + 2),
                      LAMBDA result :
                        IF ~result.ok THEN result
                        ELSE Bind(SetKey(obj, token.value, result.value),
                                  LAMBDA set :
                                    parseObjectFrom(toks,
                                                    SkipOptional(toks, result.nextIndex, {";", ","}),
                                                    set)))
       ELSE parseObjectFrom(toks, index + 1, obj)
  ELSE Return(ObjV(obj), index)

parseObject(toks, index) == parseObjectFrom(toks, index, <<>>)

\* the loop of parseArray, arr being the elements read so far
parseArrayFrom(toks, index, arr) ==
  IF index < Len(toks)
  THEN LET token == toks[index + 1] IN
       IF IsDelimiter(token, ")") THEN Return(ArrV(arr), index + 1)
       ELSE Bind(parseValue(toks, index),
                 LAMBDA result :
                   IF ~result.ok THEN result
                   ELSE Bind(Append(arr, result.value),
                             LAMBDA pushed :
                               parseArrayFrom(toks,
                                              SkipOptional(toks, result.nextIndex, {","}),
                                              pushed)))
  ELSE Throw(Error(<<Lit("Unterminated array")>>))

parseArray(toks, index) == parseArrayFrom(toks, index, <<>>)

parseValue(toks, index) ==
  IF index >= Len(toks) THEN Throw(Error(<<Lit("Unexpected end of input")>>))
  ELSE LET token == toks[index + 1] IN
       IF token.type = "string" THEN Return(StrV(token.value), index + 1)
       ELSE IF token.type = "number"
         THEN Return(IF startsWith(token.value, <<"0", "x">>)
                     THEN StrV(token.value) ELSE parseFloat(token.value), index + 1)
       ELSE IF token.type = "boolean"
         THEN Return(BoolV(token.value = <<"t", "r", "u", "e">>), index + 1)
       ELSE IF IsDelimiter(token, "{") THEN parseObject(toks, index + 1)
       ELSE IF IsDelimiter(token, "(") THEN parseArray(toks, index + 1)
       ELSE Throw(Error(<<Lit("Unexpected token: "), Chars(token.value),
                          Lit(" at line "), Num(token.line)>>))

\* parseLibconfig after tokenize(content)
parseTokens(toks) ==
  IF Len(toks) > 0 /\ toks[1].type = "identifier"
  THEN parseObject(toks, 0)
  ELSE parseValue(toks, 0)

parseLibconfig(s) == Bind(tokenize(s), LAMBDA toks : parseTokens(toks))

----------------------------------------------------------------------------
(* configParser: the domain mapper *)

Null == [t |-> "null"]

devicesKey == <<"d", "e", "v", "i", "c", "e", "s">>

nameKey == <<"n", "a", "m", "e">>

vidKey == <<"v", "i", "d">>

pidKey == <<"p", "i", "d">>

\* normalizeHexValue leaving the letter case as written
normalizeHexValue_KeepsCase(value) ==
  LET cleaned == trim(value) IN
  IF startsWith(cleaned, <<"0", "x">>) THEN cleaned ELSE <<"0", "x">> \o cleaned

\* normalizeHexValue
normalizeHexValue(value) ==
  LET cleaned == toLowerCase(trim(value)) IN
  IF startsWith(cleaned, <<"0", "x">>) THEN cleaned ELSE <<"0", "x">> \o cleaned

\* a call that threw: the value is Throw(error)
Thrown(x) == "err" \in DOMAIN x

\* the type an action gets from its lower-cased type string
actionType(normalizedType) ==
  IF normalizedType = <<"k", "e", "y", "p", "r", "e", "s", "s">> THEN <<"k", "e", "y">>
  ELSE IF normalizedType = <<"g", "e", "s", "t", "u", "r", "e", "s">> THEN <<"g", "e", "s", "t", "u", "r", "e">>
  ELSE IF normalizedType = <<"c", "h", "a", "n", "g", "e", "d", "p", "i">> THEN <<"c", "h", "a", "n", "g", "e", "D", "P", "I">>
  ELSE normalizedType

\* keys as string[]: an array element by element, any other value alone
KeysOf(keys) ==
  IF IsArray(keys) THEN ArrV([i \in 1..Len(keys.e) |-> StrV(String(keys.e[i]))])
  ELSE ArrV(<<StrV(String(keys))>>)

\* the parameters { mode, axis } with axis_multiplier when it is defined
AxisParameters(data) ==
  LET parameters == Obj2(<<"m", "o", "d", "e">>, StrV(String(Get(data, <<"m", "o", "d", "e">>))),
                         <<"a", "x", "i", "s">>, StrV(String(Get(data, <<"a", "x", "i", "s">>))))
  IN IF Get(data, <<"a", "x", "i", "s", "_", "m", "u", "l", "t", "i", "p", "l", "i", "e", "r">>) # Undefined
     THEN Put(parameters, <<"a", "x", "i", "s", "_", "m", "u", "l", "t", "i", "p", "l", "i", "e", "r">>, Number(Get(data, <<"a", "x", "i", "s", "_", "m", "u", "l", "t", "i", "p", "l", "i", "e", "r">>)))
     ELSE parameters

RECURSIVE parseActionFromData(_)
RECURSIVE parseGestureFromData(_)
RECURSIVE MapGestures(_, _)

\* elements.map(parseGestureFromData).filter(Boolean), out being the gestures kept so far
MapGestures(elements, out) ==
  IF elements = <<>> THEN ArrV(out)
  ELSE Bind(parseGestureFromData(Head(elements)),
            LAMBDA gesture :
              MapGestures(Tail(elements), IF Truthy(gesture) THEN Append(out, gesture) ELSE out))

\* parseGestureFromData
parseGestureFromData(data) ==
  IF ~Truthy(Get(data, <<"d", "i", "r", "e", "c", "t", "i", "o", "n">>)) \/ ~Truthy(Get(data, <<"m", "o", "d", "e">>)) THEN Null
  ELSE Bind(parseActionFromData(Get(data, <<"a", "c", "t", "i", "o", "n">>)),
            LAMBDA action :
              IF ~Truthy(action) THEN Null
              ELSE LET gesture == Obj3(<<"d", "i", "r", "e", "c", "t", "i", "o", "n">>, StrV(String(Get(data, <<"d", "i", "r", "e", "c", "t", "i", "o", "n">>))),
                                       <<"m", "o", "d", "e">>, StrV(String(Get(data, <<"m", "o", "d", "e">>))),
                                       <<"a", "c", "t", "i", "o", "n">>, action)
                       withThreshold ==
                         IF Get(data, <<"t", "h", "r", "e", "s", "h", "o", "l", "d">>) # Undefined
                         THEN Put(gesture, <<"t", "h", "r", "e", "s", "h", "o", "l", "d">>, Number(Get(data, <<"t", "h", "r", "e", "s", "h", "o", "l", "d">>)))
                         ELSE gesture
                   IN IF Get(data, <<"i", "n", "t", "e", "r", "v", "a", "l">>) # Undefined
                      THEN Put(withThreshold, <<"i", "n", "t", "e", "r", "v", "a", "l">>, Number(Get(data, <<"i", "n", "t", "e", "r", "v", "a", "l">>)))
                      ELSE withThreshold)

\* parseActionFromData
parseActionFromData(data) ==
  IF ~Truthy(data) \/ ~Truthy(Get(data, <<"t", "y", "p", "e">>)) THEN Null
  ELSE LET originalType == String(Get(data, <<"t", "y", "p", "e">>))
           normalizedType == toLowerCase(originalType)
           action == Obj1(<<"t", "y", "p", "e">>, StrV(actionType(normalizedType)))
           case == toLowerCase(actionType(normalizedType))
       IN IF case = <<"k", "e", "y", "p", "r", "e", "s", "s">> \/ case = <<"k", "e", "y">>
          THEN IF Truthy(Get(data, <<"k", "e", "y", "s">>))
               THEN Put(action, <<"p", "a", "r", "a", "m", "e", "t", "e", "r", "s">>, Obj1(<<"k", "e", "y", "s">>, KeysOf(Get(data, <<"k", "e", "y", "s">>))))
               ELSE action
          ELSE IF case = <<"g", "e", "s", "t", "u", "r", "e", "s">> \/ case = <<"g", "e", "s", "t", "u", "r", "e">>
          THEN IF Truthy(Get(data, <<"g", "e", "s", "t", "u", "r", "e", "s">>)) /\ IsArray(Get(data, <<"g", "e", "s", "t", "u", "r", "e", "s">>))
               THEN Bind(MapGestures(Get(data, <<"g", "e", "s", "t", "u", "r", "e", "s">>).e, <<>>),
                         LAMBDA gestures : Put(action, <<"p", "a", "r", "a", "m", "e", "t", "e", "r", "s">>, Obj1(<<"g", "e", "s", "t", "u", "r", "e", "s">>, gestures)))
               ELSE action
          ELSE IF case = <<"a", "x", "i", "s">>
          THEN IF Truthy(Get(data, <<"m", "o", "d", "e">>)) /\ Truthy(Get(data, <<"a", "x", "i", "s">>))
               THEN Put(action, <<"p", "a", "r", "a", "m", "e", "t", "e", "r", "s">>, AxisParameters(data))
               ELSE action
          ELSE IF case = <<"c", "h", "a", "n", "g", "e", "d", "p", "i">>
          THEN IF Get(data, <<"s", "e", "n", "s", "o", "r">>) # Undefined
               THEN Put(action, <<"p", "a", "r", "a", "m", "e", "t", "e", "r", "s">>, Obj1(<<"s", "e", "n", "s", "o", "r">>, Number(Get(data, <<"s", "e", "n", "s", "o", "r">>))))
               ELSE action
          ELSE action

RECURSIVE normalizeActionData(_)
RECURSIVE NormalizeGestures(_, _)

\* actionData.gestures.map(...) of normalizeActionData, out being the gestures mapped so far
NormalizeGestures(elements, out) ==
  IF elements = <<>> THEN ArrV(out)
  ELSE Bind(normalizeActionData(Get(Head(elements), <<"a", "c", "t", "i", "o", "n">>)),
            LAMBDA action :
              IF Thrown(action) THEN action
              ELSE NormalizeGestures(
                     Tail(elements),
                     Append(out, Obj3(<<"d", "i", "r", "e", "c", "t", "i", "o", "n">>, StrV(String(Get(Head(elements), <<"d", "i", "r", "e", "c", "t", "i", "o", "n">>))),
                                      <<"m", "o", "d", "e">>, StrV(String(Get(Head(elements), <<"m", "o", "d", "e">>))),
                                      <<"a", "c", "t", "i", "o", "n">>, action))))

\* normalizeActionData; reading the type of undefined throws
normalizeActionData(actionData) ==
  IF actionData.t = "undefined" \/ actionData.t = "null"
  THEN Throw(TypeError(<<Lit("Cannot read properties of undefined (reading 'type')")>>))
  ELSE LET originalType == String(Get(actionData, <<"t", "y", "p", "e">>))
           normalizedType == toLowerCase(originalType)
           type == actionType(normalizedType)
           action == Obj1(<<"t", "y", "p", "e">>, StrV(type))
       IN IF type = <<"k", "e", "y">> /\ Truthy(Get(actionData, <<"k", "e", "y", "s">>))
          THEN Put(action, <<"p", "a", "r", "a", "m", "e", "t", "e", "r", "s">>, Obj1(<<"k", "e", "y", "s">>, KeysOf(Get(actionData, <<"k", "e", "y", "s">>))))
          ELSE IF type = <<"g", "e", "s", "t", "u", "r", "e">> /\ Truthy(Get(actionData, <<"g", "e", "s", "t", "u", "r", "e", "s">>))
                  /\ IsArray(Get(actionData, <<"g", "e", "s", "t", "u", "r", "e", "s">>))
          THEN Bind(NormalizeGestures(Get(actionData, <<"g", "e", "s", "t", "u", "r", "e", "s">>).e, <<>>),
                    LAMBDA gestures :
                      IF Thrown(gestures) THEN gestures
                      ELSE Put(action, <<"p", "a", "r", "a", "m", "e", "t", "e", "r", "s">>, Obj1(<<"g", "e", "s", "t", "u", "r", "e", "s">>, gestures)))
          ELSE IF type = <<"a", "x", "i", "s">> /\ Truthy(Get(actionData, <<"m", "o", "d", "e">>)) /\ Truthy(Get(actionData, <<"a", "x", "i", "s">>))
          THEN Put(action, <<"p", "a", "r", "a", "m", "e", "t", "e", "r", "s">>, AxisParameters(actionData))
          ELSE IF type = <<"c", "h", "a", "n", "g", "e", "D", "P", "I">> /\ Get(actionData, <<"s", "e", "n", "s", "o", "r">>) # Undefined
          THEN Put(action, <<"p", "a", "r", "a", "m", "e", "t", "e", "r", "s">>, Obj1(<<"s", "e", "n", "s", "o", "r">>, Number(Get(actionData, <<"s", "e", "n", "s", "o", "r">>))))
          ELSE action

\* one pass of the loop over the directions, dropping an entry that has no type
ScrollDirection_TypedOnly(data, settings, direction) ==
  LET directionData == Get(data, direction) IN
  IF ~Truthy(directionData) THEN settings
  ELSE Bind(parseActionFromData(directionData),
            LAMBDA action : IF Truthy(action) THEN Put(settings, direction, action) ELSE settings)

\* one pass of the loop of parseScrollWheelFromData over the directions
ScrollDirection(data, settings, direction) ==
  LET directionData == Get(data, direction) IN
  IF ~Truthy(directionData) THEN settings
  ELSE IF ~Truthy(Get(directionData, <<"t", "y", "p", "e">>)) /\ Truthy(Get(directionData, <<"m", "o", "d", "e">>))
          /\ Truthy(Get(directionData, <<"a", "x", "i", "s">>))
  THEN Put(settings, direction,
           Obj2(<<"t", "y", "p", "e">>, StrV(<<"c", "y", "c", "l", "e", "H", "i", "R", "e", "s">>), <<"p", "a", "r", "a", "m", "e", "t", "e", "r", "s">>, AxisParameters(directionData)))
  ELSE Bind(parseActionFromData(directionData),
            LAMBDA action : IF Truthy(action) THEN Put(settings, direction, action) ELSE settings)

\* settings[flag] = Boolean(data[flag]) when data[flag] is defined
ScrollFlag(data, settings, flag) ==
  IF Get(data, flag) # Undefined THEN Put(settings, flag, Boolean(Get(data, flag))) ELSE settings

RECURSIVE ScrollDirections(_, _, _)
\* the loop of parseScrollWheelFromData over the remaining directions
ScrollDirections(data, settings, directions) ==
  IF directions = <<>> THEN settings
  ELSE Bind(ScrollDirection(data, settings, Head(directions)),
            LAMBDA next : ScrollDirections(data, next, Tail(directions)))

\* parseScrollWheelFromData
parseScrollWheelFromData(data) ==
  Bind(ScrollFlag(data, ScrollFlag(data, ScrollFlag(data, ObjV(<<>>), <<"h", "i", "r", "e", "s">>), <<"i", "n", "v", "e", "r", "t">>), <<"t", "a", "r", "g", "e", "t">>),
       LAMBDA flags : ScrollDirections(data, flags, <<<<"u", "p">>, <<"d", "o", "w", "n">>, <<"l", "e", "f", "t">>, <<"r", "i", "g", "h", "t">>>>))

RECURSIVE MapButtons(_, _)
\* data.buttons.map(...).filter(Boolean) of parseDeviceFromData, out being the buttons kept so far
MapButtons(elements, out) ==
  IF elements = <<>> THEN ArrV(out)
  ELSE LET buttonData == Head(elements) IN
       IF ~Truthy(Get(buttonData, <<"c", "i", "d">>)) \/ ~Truthy(Get(buttonData, <<"a", "c", "t", "i", "o", "n">>))
       THEN MapButtons(Tail(elements), out)
       ELSE Bind(normalizeActionData(Get(buttonData, <<"a", "c", "t", "i", "o", "n">>)),
                 LAMBDA normalizedAction :
                   IF Thrown(normalizedAction) THEN normalizedAction
                   ELSE MapButtons(
                          Tail(elements),
                          Append(out, Obj2(<<"c", "i", "d">>, StrV(normalizeHexValue(String(Get(buttonData, <<"c", "i", "d">>)))),
                                           <<"a", "c", "t", "i", "o", "n">>, normalizedAction))))

\* parseDeviceFromData rejecting a block that lacks vid or pid
parseDeviceFromData_RequiresIds(data) ==
  IF ~Truthy(Get(data, nameKey)) \/ ~Truthy(Get(data, vidKey)) \/ ~Truthy(Get(data, pidKey))
  THEN Null
  ELSE [name |-> String(Get(data, nameKey)),
        vid |-> normalizeHexValue(String(Get(data, vidKey))),
        pid |-> normalizeHexValue(String(Get(data, pidKey)))]

\* data.scrollwheel || data.hiresscroll || data.scroll_wheel
ScrollData_ScrollwheelFirst(data) ==
  IF Truthy(Get(data, <<"s", "c", "r", "o", "l", "l", "w", "h", "e", "e", "l">>)) THEN Get(data, <<"s", "c", "r", "o", "l", "l", "w", "h", "e", "e", "l">>)
  ELSE IF Truthy(Get(data, <<"h", "i", "r", "e", "s", "s", "c", "r", "o", "l", "l">>)) THEN Get(data, <<"h", "i", "r", "e", "s", "s", "c", "r", "o", "l", "l">>)
  ELSE Get(data, <<"s", "c", "r", "o", "l", "l", "_", "w", "h", "e", "e", "l">>)

\* const scrollData = data.hiresscroll || data.scrollwheel || data.scroll_wheel
ScrollData(data) ==
  IF Truthy(Get(data, <<"h", "i", "r", "e", "s", "s", "c", "r", "o", "l", "l">>)) THEN Get(data, <<"h", "i", "r", "e", "s", "s", "c", "r", "o", "l", "l">>)
  ELSE IF Truthy(Get(data, <<"s", "c", "r", "o", "l", "l", "w", "h", "e", "e", "l">>)) THEN Get(data, <<"s", "c", "r", "o", "l", "l", "w", "h", "e", "e", "l">>)
  ELSE Get(data, <<"s", "c", "r", "o", "l", "l", "_", "w", "h", "e", "e", "l">>)

\* the optional properties of parseDeviceFromData up to the scroll wheel
DeviceSettings(data, device) ==
  LET timeout ==
        IF Get(data, <<"t", "i", "m", "e", "o", "u", "t">>) # Undefined
        THEN With(device, "timeout", Number(Get(data, <<"t", "i", "m", "e", "o", "u", "t">>))) ELSE device
      dpi ==
        IF Get(data, <<"d", "p", "i">>) # Undefined
        THEN IF Get(data, <<"d", "p", "i">>).t = "number"
             THEN With(timeout, "dpi",
                       Obj1(<<"s", "e", "n", "s", "o", "r", "s">>, ArrV(<<Obj2(<<"d", "p", "i">>, Get(data, <<"d", "p", "i">>), <<"d", "e", "f", "a", "u", "l", "t">>, BoolV(TRUE))>>)))
             ELSE IF Truthy(Get(data, <<"d", "p", "i">>)) /\ Truthy(Get(Get(data, <<"d", "p", "i">>), <<"s", "e", "n", "s", "o", "r", "s">>))
             THEN With(timeout, "dpi", Get(data, <<"d", "p", "i">>))
             ELSE timeout
        ELSE timeout
      smartshift ==
        IF Truthy(Get(data, <<"s", "m", "a", "r", "t", "s", "h", "i", "f", "t">>))
        THEN With(dpi, "smartshift",
                  Obj2(<<"o", "n">>, Boolean(Get(Get(data, <<"s", "m", "a", "r", "t", "s", "h", "i", "f", "t">>), <<"o", "n">>)),
                       <<"t", "h", "r", "e", "s", "h", "o", "l", "d">>,
                       IF Truthy(Get(Get(data, <<"s", "m", "a", "r", "t", "s", "h", "i", "f", "t">>), <<"t", "h", "r", "e", "s", "h", "o", "l", "d">>))
                       THEN Number(Get(Get(data, <<"s", "m", "a", "r", "t", "s", "h", "i", "f", "t">>), <<"t", "h", "r", "e", "s", "h", "o", "l", "d">>))
                       ELSE NumV(20, <<>>)))
        ELSE dpi
      scrollData == ScrollData(data)
  IN IF Truthy(scrollData)
     THEN With(smartshift, "scrollWheel", parseScrollWheelFromData(scrollData))
     ELSE smartshift

\* parseDeviceFromData
parseDeviceFromData(data) ==
  IF ~Truthy(Get(data, nameKey)) THEN Null
  ELSE Bind(DeviceSettings(data,
                           [name |-> IF Get(data, nameKey).t = "string"
                                     THEN Get(data, nameKey).s ELSE String(Get(data, nameKey)),
                            vid |-> IF Truthy(Get(data, vidKey))
                                    THEN normalizeHexValue(String(Get(data, vidKey))) ELSE <<>>,
                            pid |-> IF Truthy(Get(data, pidKey))
                                    THEN normalizeHexValue(String(Get(data, pidKey))) ELSE <<>>]),
            LAMBDA device :
              Bind(IF Truthy(Get(data, <<"b", "u", "t", "t", "o", "n", "s">>)) /\ IsArray(Get(data, <<"b", "u", "t", "t", "o", "n", "s">>))
                   THEN MapButtons(Get(data, <<"b", "u", "t", "t", "o", "n", "s">>).e, <<>>) ELSE Undefined,
                   LAMBDA buttons :
                     IF Thrown(buttons) THEN buttons
                     ELSE Bind(IF buttons = Undefined THEN device ELSE With(device, "buttons", buttons),
                               LAMBDA withButtons :
                                 IF Truthy(Get(data, <<"g", "e", "s", "t", "u", "r", "e", "s">>)) /\ IsArray(Get(data, <<"g", "e", "s", "t", "u", "r", "e", "s">>))
                                 THEN With(withButtons, "gestures",
                                           MapGestures(Get(data, <<"g", "e", "s", "t", "u", "r", "e", "s">>).e, <<>>))
                                 ELSE withButtons)))

RECURSIVE PushDevices(_, _)
\* the loop body of parseDevicesFromData over the remaining elements
PushDevices(elems, devices) ==
  IF elems = <<>> THEN [ok |-> TRUE, devices |-> devices]
  ELSE Bind(parseDeviceFromData(Head(elems)),
            LAMBDA device :
              IF Thrown(device) THEN device
              ELSE PushDevices(Tail(elems),
                               IF device # Null THEN Append(devices, device) ELSE devices))

\* parseDevicesFromData: for...of iterates an array by element and a string
\* by character; any other value is not iterable
parseDevicesFromData(devicesData) ==
  IF devicesData.t = "array"
  THEN PushDevices(devicesData.e, <<>>)
  ELSE IF devicesData.t = "string"
  THEN PushDevices([i \in 1..Len(devicesData.s) |-> StrV(<<devicesData.s[i]>>)], <<>>)
  ELSE Throw(TypeError(<<Lit("devicesData is not iterable")>>))

\* the steps of parseConfigFile after parseLibconfig returned the tree
mapParsed(tree, text, filename) ==
  LET found == Get(tree, devicesKey)
      devicesData == IF Truthy(found) THEN found ELSE ArrV(<<>>)
  IN Bind(parseDevicesFromData(devicesData),
          LAMBDA devices :
            IF ~devices.ok THEN devices
            ELSE [ok |-> TRUE,
                  config |-> [devices |-> devices.devices,
                              metadata |-> [version |-> "1.0.0",
                                            filename |-> filename,
                                            originalContent |-> text]]])

\* the try block of parseConfigFile, on the tokens of content
\* (metadata.created and metadata.modified, the time of the call, are left out)
parseConfigFileBody(toks, text, filename) ==
  Bind(parseTokens(toks),
       LAMBDA result : IF ~result.ok THEN result
                       ELSE mapParsed(result.value, text, filename))

\* the catch block rethrowing whatever it caught
parseConfigFileCatch_Rethrows(error) == Throw(error)

\* the catch block of parseConfigFile
parseConfigFileCatch(error) ==
  IF error.name = "ConfigParseError" THEN Throw(error)
  ELSE Throw(ConfigParseError(<<Lit("Failed to parse configuration file: ")>> \o error.message,
                              Undefined, Undefined))

parseConfigFileTokens(toks, text, filename) ==
  Bind(parseConfigFileBody(toks, text, filename),
       LAMBDA result : IF result.ok THEN result ELSE parseConfigFileCatch(result.err))

parseConfigFile(text, filename) ==
  Bind(tokenize(text), LAMBDA toks : parseConfigFileTokens(toks, text, filename))

\* validateConfigSyntax returning a fresh, empty errors list from its catch block
validateConfigSyntax_DropsMessage(text) ==
  Bind(parseConfigFile(text, Undefined),
       LAMBDA result : IF result.ok THEN [isValid |-> TRUE, errors |-> <<>>]
                       ELSE [isValid |-> FALSE, errors |-> <<>>])

\* validateConfigSyntax
validateConfigSyntax(text) ==
  Bind(parseConfigFile(text, Undefined),
       LAMBDA result :
         IF result.ok THEN [isValid |-> TRUE, errors |-> <<>>]
         ELSE IF result.err.name = "ConfigParseError"
         THEN [isValid |-> FALSE, errors |-> <<result.err.message>>]
         ELSE [isValid |-> FALSE,
               errors |-> <<<<Lit("Syntax validation failed: ")>> \o result.err.message>>])

----------------------------------------------------------------------------
(* configParser: the generator *)

RECURSIVE join(_, _)
\* lines.join(sep)
join(ls, sep) ==
  IF ls = <<>> THEN <<>>
  ELSE IF Len(ls) = 1 THEN ls[1]
  ELSE ls[1] \o sep \o join(Tail(ls), sep)

\* String.prototype.toUpperCase on one character
UpperOf(c) == IF c \in LowerLetters THEN CHOOSE u \in UpperLetters : LowerOf(u) = c ELSE c

\* value.length: of a string and of an array, undefined (never above 0) otherwise
LengthOf(v) == IF v.t = "string" THEN Len(v.s) ELSE IF v.t = "array" THEN Len(v.e) ELSE 0

\* the type name of an action on output, re-spelling key as "Key"
outputType_Key(type) ==
  LET lower == toLowerCase(type) IN
  IF lower = <<"k", "e", "y">> \/ lower = <<"k", "e", "y", "p", "r", "e", "s", "s">> THEN <<"K", "e", "y">>
  ELSE IF lower = <<"g", "e", "s", "t", "u", "r", "e">> \/ lower = <<"g", "e", "s", "t", "u", "r", "e", "s">> THEN <<"G", "e", "s", "t", "u", "r", "e", "s">>
  ELSE IF lower = <<"c", "h", "a", "n", "g", "e", "d", "p", "i">> THEN <<"C", "h", "a", "n", "g", "e", "D", "P", "I">>
  ELSE IF lower = <<"a", "x", "i", "s">> THEN <<"A", "x", "i", "s">>
  ELSE IF lower = <<"c", "y", "c", "l", "e", "h", "i", "r", "e", "s">> THEN <<"c", "y", "c", "l", "e", "H", "i", "R", "e", "s">>
  ELSE type

\* the first switch of generateActionConfig: the type name of an action on output
outputType(type) ==
  LET lower == toLowerCase(type) IN
  IF lower = <<"k", "e", "y">> \/ lower = <<"k", "e", "y", "p", "r", "e", "s", "s">> THEN <<"K", "e", "y", "p", "r", "e", "s", "s">>
  ELSE IF lower = <<"g", "e", "s", "t", "u", "r", "e">> \/ lower = <<"g", "e", "s", "t", "u", "r", "e", "s">> THEN <<"G", "e", "s", "t", "u", "r", "e", "s">>
  ELSE IF lower = <<"c", "h", "a", "n", "g", "e", "d", "p", "i">> THEN <<"C", "h", "a", "n", "g", "e", "D", "P", "I">>
  ELSE IF lower = <<"a", "x", "i", "s">> THEN <<"A", "x", "i", "s">>
  ELSE IF lower = <<"c", "y", "c", "l", "e", "h", "i", "r", "e", "s">> THEN <<"c", "y", "c", "l", "e", "H", "i", "R", "e", "s">>
  ELSE type

\* keys.map(key => `"${key}"`).join(', ')
RECURSIVE KeysStr(_)
KeysStr(keys) ==
  IF keys = <<>> THEN <<>>
  ELSE <<"\"">> \o String(Head(keys)) \o <<"\"">>
       \o (IF Len(keys) > 1 THEN <<",", " ">> \o KeysStr(Tail(keys)) ELSE <<>>)

\* the cases 'Axis' and 'cycleHiRes' leaving the type line in place
AxisLines_KeepsType(action, indent, typeLine) ==
  LET parameters == Get(action, <<"p", "a", "r", "a", "m", "e", "t", "e", "r", "s">>) IN
  IF Truthy(Get(parameters, <<"a", "x", "i", "s">>))
  THEN <<typeLine,
         indent \o <<"m", "o", "d", "e", ":", " ", "\"", "A", "x", "i", "s", "\"", ";">>,
         indent \o <<"a", "x", "i", "s", ":", " ", "\"">> \o String(Get(parameters, <<"a", "x", "i", "s">>)) \o <<"\"", ";">>>>
       \o (IF Get(parameters, <<"a", "x", "i", "s", "_", "m", "u", "l", "t", "i", "p", "l", "i", "e", "r">>) # Undefined
           THEN <<indent \o <<"a", "x", "i", "s", "_", "m", "u", "l", "t", "i", "p", "l", "i", "e", "r", ":", " ">> \o String(Get(parameters, <<"a", "x", "i", "s", "_", "m", "u", "l", "t", "i", "p", "l", "i", "e", "r">>)) \o <<";">>>>
           ELSE <<>>)
  ELSE <<typeLine>>

\* the cases 'Axis' and 'cycleHiRes' of generateActionConfig, typeLine being
\* the line pushed before the switch
AxisLines(action, indent, typeLine) ==
  LET parameters == Get(action, <<"p", "a", "r", "a", "m", "e", "t", "e", "r", "s">>) IN
  IF Truthy(Get(parameters, <<"a", "x", "i", "s">>))
  THEN <<indent \o <<"m", "o", "d", "e", ":", " ", "\"", "A", "x", "i", "s", "\"", ";">>,
         indent \o <<"a", "x", "i", "s", ":", " ", "\"">> \o String(Get(parameters, <<"a", "x", "i", "s">>)) \o <<"\"", ";">>>>
       \o (IF Get(parameters, <<"a", "x", "i", "s", "_", "m", "u", "l", "t", "i", "p", "l", "i", "e", "r">>) # Undefined
           THEN <<indent \o <<"a", "x", "i", "s", "_", "m", "u", "l", "t", "i", "p", "l", "i", "e", "r", ":", " ">> \o String(Get(parameters, <<"a", "x", "i", "s", "_", "m", "u", "l", "t", "i", "p", "l", "i", "e", "r">>)) \o <<";">>>>
           ELSE <<>>)
  ELSE <<typeLine>>

RECURSIVE generateActionConfig(_, _)
RECURSIVE GestureLines(_, _, _)

\* the forEach over action.parameters.gestures from gesture number index (0-based) on
GestureLines(gestures, index, indent) ==
  IF index >= Len(gestures) THEN <<>>
  ELSE LET gesture == gestures[index + 1]
           direction == String(Get(gesture, <<"d", "i", "r", "e", "c", "t", "i", "o", "n">>))
           capitalizedDirection ==
             IF direction = <<>> THEN <<>> ELSE <<UpperOf(Head(direction))>> \o Tail(direction)
       IN <<indent \o <<" ", " ", "{">>,
            indent \o <<" ", " ", " ", " ", "d", "i", "r", "e", "c", "t", "i", "o", "n", ":", " ", "\"">> \o capitalizedDirection \o <<"\"", ";">>,
            indent \o <<" ", " ", " ", " ", "m", "o", "d", "e", ":", " ", "\"">> \o String(Get(gesture, <<"m", "o", "d", "e">>)) \o <<"\"", ";">>,
            indent \o <<" ", " ", " ", " ", "a", "c", "t", "i", "o", "n", " ", "=">>,
            indent \o <<" ", " ", " ", " ", "{">>>>
          \o generateActionConfig(Get(gesture, <<"a", "c", "t", "i", "o", "n">>), indent \o <<" ", " ", " ", " ", " ", " ">>)
          \o <<indent \o <<" ", " ", " ", " ", "}", ";">>,
               indent \o <<" ", " ", "}">> \o (IF index < Len(gestures) - 1 THEN <<",">> ELSE <<>>)>>
          \o GestureLines(gestures, index + 1, indent)

\* generateActionConfig
generateActionConfig(action, indent) ==
  LET type == outputType(Get(action, <<"t", "y", "p", "e">>).s)
      parameters == Get(action, <<"p", "a", "r", "a", "m", "e", "t", "e", "r", "s">>)
      typeLine == indent \o <<"t", "y", "p", "e", ":", " ", "\"">> \o type \o <<"\"", ";">>
  IN IF type = <<"K", "e", "y", "p", "r", "e", "s", "s">>
     THEN <<typeLine>>
          \o (IF Truthy(Get(parameters, <<"k", "e", "y", "s">>)) /\ IsArray(Get(parameters, <<"k", "e", "y", "s">>))
              THEN <<indent \o <<"k", "e", "y", "s", ":", " ", "[">> \o KeysStr(Get(parameters, <<"k", "e", "y", "s">>).e) \o <<"]", ";">>>>
              ELSE <<>>)
     ELSE IF type = <<"G", "e", "s", "t", "u", "r", "e", "s">>
     THEN <<typeLine>>
          \o (IF Truthy(Get(parameters, <<"g", "e", "s", "t", "u", "r", "e", "s">>)) /\ IsArray(Get(parameters, <<"g", "e", "s", "t", "u", "r", "e", "s">>))
              THEN <<indent \o <<"g", "e", "s", "t", "u", "r", "e", "s", ":", " ", "(">>>>
                   \o GestureLines(Get(parameters, <<"g", "e", "s", "t", "u", "r", "e", "s">>).e, 0, indent)
                   \o <<indent \o <<")", ";">>>>
              ELSE <<>>)
     ELSE IF type = <<"A", "x", "i", "s">> \/ type = <<"c", "y", "c", "l", "e", "H", "i", "R", "e", "s">>
     THEN AxisLines(action, indent, typeLine)
     ELSE <<typeLine>>

\* getButtonComment
getButtonComment(cid) ==
  LET lower == toLowerCase(cid) IN
  IF lower = <<"0", "x", "c", "3">> THEN <<"T", "h", "u", "m", "b", " ", "b", "u", "t", "t", "o", "n">>
  ELSE IF lower = <<"0", "x", "c", "4">> THEN <<"F", "o", "r", "w", "a", "r", "d", " ", "b", "u", "t", "t", "o", "n">>
  ELSE IF lower = <<"0", "x", "c", "5">> THEN <<"B", "a", "c", "k", " ", "b", "u", "t", "t", "o", "n">>
  ELSE IF lower = <<"0", "x", "5", "3">> THEN <<"S", "c", "r", "o", "l", "l", " ", "w", "h", "e", "e", "l", " ", "b", "u", "t", "t", "o", "n">>
  ELSE IF lower = <<"0", "x", "5", "6">> THEN <<"G", "e", "s", "t", "u", "r", "e", " ", "b", "u", "t", "t", "o", "n">>
  ELSE <<"B", "u", "t", "t", "o", "n">>

\* the lines of one flag of the scroll wheel
ScrollFlagLines(scrollWheel, indent, flag) ==
  IF Get(scrollWheel, flag) # Undefined
  THEN <<indent \o <<" ", " ">> \o flag \o <<":", " ">> \o String(Get(scrollWheel, flag)) \o <<";">>>>
  ELSE <<>>

RECURSIVE ScrollDirectionLines(_, _, _)
\* the forEach of generateDeviceConfig over the remaining directions of the scroll wheel
ScrollDirectionLines(scrollWheel, indent, directions) ==
  IF directions = <<>> THEN <<>>
  ELSE (IF Truthy(Get(scrollWheel, Head(directions)))
        THEN <<indent \o <<" ", " ">> \o Head(directions) \o <<":", " ", "{">>>>
             \o generateActionConfig(Get(scrollWheel, Head(directions)), indent \o <<" ", " ", " ", " ", " ", " ">>)
             \o <<indent \o <<" ", " ", "}", ",">>>>
        ELSE <<>>)
       \o ScrollDirectionLines(scrollWheel, indent, Tail(directions))

\* the hiresscroll section of generateDeviceConfig
ScrollWheelSection(device, indent) ==
  LET scrollWheel == Opt(device, "scrollWheel") IN
  IF Truthy(scrollWheel)
  THEN <<indent \o <<"h", "i", "r", "e", "s", "s", "c", "r", "o", "l", "l", ":">>, indent \o <<"{">>>>
       \o ScrollFlagLines(scrollWheel, indent, <<"h", "i", "r", "e", "s">>)
       \o ScrollFlagLines(scrollWheel, indent, <<"i", "n", "v", "e", "r", "t">>)
       \o ScrollFlagLines(scrollWheel, indent, <<"t", "a", "r", "g", "e", "t">>)
       \o ScrollDirectionLines(scrollWheel, indent, <<<<"u", "p">>, <<"d", "o", "w", "n">>, <<"l", "e", "f", "t">>, <<"r", "i", "g", "h", "t">>>>)
       \o <<indent \o <<"}", ";">>>>
  ELSE <<>>

\* the dpi line of generateDeviceConfig; a sensors value that is a string
\* has no find and is outside the devices of this model
DpiSection(device, indent) ==
  LET sensors == Get(Opt(device, "dpi"), <<"s", "e", "n", "s", "o", "r", "s">>) IN
  IF Truthy(Opt(device, "dpi")) /\ IsArray(sensors) /\ LengthOf(sensors) > 0
  THEN LET defaultSensor ==
             IF \E i \in 1..Len(sensors.e) : Truthy(Get(sensors.e[i], <<"d", "e", "f", "a", "u", "l", "t">>))
             THEN sensors.e[CHOOSE i \in 1..Len(sensors.e) :
                              /\ Truthy(Get(sensors.e[i], <<"d", "e", "f", "a", "u", "l", "t">>))
                              /\ \A j \in 1..(i - 1) : ~Truthy(Get(sensors.e[j], <<"d", "e", "f", "a", "u", "l", "t">>))]
             ELSE sensors.e[1]
       IN <<indent \o <<"d", "p", "i", ":", " ">> \o String(Get(defaultSensor, <<"d", "p", "i">>)) \o <<";">>>>
  ELSE <<>>

RECURSIVE ButtonLines(_, _, _)
\* the forEach over device.buttons from button number index (0-based) on
ButtonLines(buttons, index, indent) ==
  IF index >= Len(buttons) THEN <<>>
  ELSE LET button == buttons[index + 1] IN
       <<indent \o <<" ", " ", "{">>,
         indent \o <<" ", " ", " ", " ", "#", " ">> \o getButtonComment(String(Get(button, <<"c", "i", "d">>))),
         indent \o <<" ", " ", " ", " ", "c", "i", "d", ":", " ">> \o String(Get(button, <<"c", "i", "d">>)) \o <<";">>,
         indent \o <<" ", " ", " ", " ", "a", "c", "t", "i", "o", "n", " ", "=">>,
         indent \o <<" ", " ", " ", " ", "{">>>>
       \o generateActionConfig(Get(button, <<"a", "c", "t", "i", "o", "n">>), indent \o <<" ", " ", " ", " ", " ", " ">>)
       \o <<indent \o <<" ", " ", " ", " ", "}", ";">>,
            indent \o <<" ", " ", "}">> \o (IF index < Len(buttons) - 1 THEN <<",">> ELSE <<>>)>>
       \o ButtonLines(buttons, index + 1, indent)

\* the buttons section written for an empty list as well
ButtonsSection_EmitsEmpty(device, indent) ==
  LET buttons == Opt(device, "buttons") IN
  IF Truthy(buttons)
  THEN <<indent \o <<"b", "u", "t", "t", "o", "n", "s", ":", " ", "(">>>> \o ButtonLines(buttons.e, 0, indent) \o <<indent \o <<")", ";">>>>
  ELSE <<>>

\* the buttons section of generateDeviceConfig
ButtonsSection(device, indent) ==
  LET buttons == Opt(device, "buttons") IN
  IF Truthy(buttons) /\ LengthOf(buttons) > 0
  THEN <<indent \o <<"b", "u", "t", "t", "o", "n", "s", ":", " ", "(">>>> \o ButtonLines(buttons.e, 0, indent) \o <<indent \o <<")", ";">>>>
  ELSE <<>>

\* generateDeviceConfig
generateDeviceConfig(device, indent) ==
  <<indent \o <<"/", "/", " ", "F", "o", "r", " ", "t", "h", "e", " ">> \o device.name,
    indent \o <<"n", "a", "m", "e", ":", " ", "\"">> \o device.name \o <<"\"", ";">>>>
  \o (IF device.vid # <<>> THEN <<indent \o <<"v", "i", "d", ":", " ">> \o device.vid \o <<";">>>> ELSE <<>>)
  \o (IF device.pid # <<>> THEN <<indent \o <<"p", "i", "d", ":", " ">> \o device.pid \o <<";">>>> ELSE <<>>)
  \o (IF Opt(device, "timeout") # Undefined
      THEN <<indent \o <<"t", "i", "m", "e", "o", "u", "t", ":", " ">> \o String(Opt(device, "timeout")) \o <<";">>>> ELSE <<>>)
  \o (IF Truthy(Opt(device, "smartshift"))
      THEN <<indent \o <<"s", "m", "a", "r", "t", "s", "h", "i", "f", "t", ":">>,
             indent \o <<"{">>,
             indent \o <<" ", " ", "o", "n", ":", " ">> \o String(Get(Opt(device, "smartshift"), <<"o", "n">>)) \o <<";">>,
             indent \o <<" ", " ", "t", "h", "r", "e", "s", "h", "o", "l", "d", ":", " ">> \o String(Get(Opt(device, "smartshift"), <<"t", "h", "r", "e", "s", "h", "o", "l", "d">>)) \o <<";">>,
             indent \o <<"}", ";">>>>
      ELSE <<>>)
  \o ScrollWheelSection(device, indent)
  \o DpiSection(device, indent)
  \o ButtonsSection(device, indent)

RECURSIVE DeviceLines(_, _)
\* the forEach of generateConfigFile from device number index (0-based) on
DeviceLines(devices, index) ==
  IF index >= Len(devices) THEN <<>>
  ELSE generateDeviceConfig(devices[index + 1], <<" ", " ">>)
       \o (IF index < Len(devices) - 1 THEN <<<<"}", ",">>, <<"{">>>> ELSE <<>>)
       \o DeviceLines(devices, index + 1)

\* generateConfigFile; created and modified are the ISO strings of the dates
generateConfigFile(config) ==
  join(<<<<"/", "/", " ", "G", "e", "n", "e", "r", "a", "t", "e", "d", " ", "b", "y", " ", "l", "o", "g", "i", "o", "p", "s", "-", "g", "u", "i">>,
         <<"/", "/", " ", "C", "r", "e", "a", "t", "e", "d", ":", " ">> \o config.metadata.created,
         <<"/", "/", " ", "M", "o", "d", "i", "f", "i", "e", "d", ":", " ">> \o config.metadata.modified,
         <<>>>>
       \o (IF Len(config.devices) > 0
           THEN <<<<"d", "e", "v", "i", "c", "e", "s", ":", " ", "(">>, <<"{">>>> \o DeviceLines(config.devices, 0) \o <<<<"}", ")", ";">>>>
           ELSE <<>>),
       <<"\n">>)

----------------------------------------------------------------------------
(* validation.ts: the validators *)

\* VALIDATION_CONSTANTS.DEVICE_ID_PATTERN: /^0x[0-9a-fA-F]{4}$/
DEVICE_ID_PATTERN(s) ==
  /\ Len(s) = 6
  /\ s[1] = "0"
  /\ s[2] = "x"
  /\ \A i \in 3..6 : IsHexDigit(s[i])

\* VALIDATION_CONSTANTS.BUTTON_CID_PATTERN: /^0x[0-9a-fA-F]{2}$/
BUTTON_CID_PATTERN(s) ==
  /\ Len(s) = 4
  /\ s[1] = "0"
  /\ s[2] = "x"
  /\ \A i \in 3..4 : IsHexDigit(s[i])

\* VALIDATION_CONSTANTS.DPI
DPI_MIN == 50

DPI_MAX == 25600

\* VALIDATION_CONSTANTS.GESTURE_THRESHOLD
GESTURE_THRESHOLD_MIN == 1

GESTURE_THRESHOLD_MAX == 100

\* VALIDATION_CONSTANTS.GESTURE_INTERVAL
GESTURE_INTERVAL_MIN == 1

GESTURE_INTERVAL_MAX == 1000

\* COMMON_LOGITECH_DEVICES, the vid and pid of each entry
COMMON_LOGITECH_DEVICES ==
  <<[vid |-> <<"0", "x", "0", "4", "6", "d">>, pid |-> <<"0", "x", "4", "0", "8", "2">>],
    [vid |-> <<"0", "x", "0", "4", "6", "d">>, pid |-> <<"0", "x", "4", "0", "6", "9">>],
    [vid |-> <<"0", "x", "0", "4", "6", "d">>, pid |-> <<"0", "x", "c", "0", "8", "b">>]>>

Diagnostic(path, message, severity, field) ==
  [path |-> path, message |-> message, severity |-> severity, field |-> field]

\* a result that is valid only when it carries no entry at all
ValidationResult_NoEntries(errors, warnings) ==
  [isValid |-> Len(errors) = 0 /\ Len(warnings) = 0, errors |-> errors, warnings |-> warnings]

\* { isValid: errors.length === 0, errors, warnings }
ValidationResult(errors, warnings) ==
  [isValid |-> Len(errors) = 0, errors |-> errors, warnings |-> warnings]

\* the entries pushed one result after the other: push(...result[field])
RECURSIVE Pushed(_, _)
Pushed(results, field) ==
  IF results = <<>> THEN <<>> ELSE Head(results)[field] \o Pushed(Tail(results), field)

\* typeof value === 'number'
IsNumber(v) == v.t = "number" \/ v.t = "NaN"

\* value < min || value > max on a number
OutOfRange(v, min, max) ==
  v.t = "number" /\ (v.int < min \/ v.int > max \/ (v.int = max /\ v.frac # <<>>))

\* validateDPISensor
validateDPISensor(sensor, basePath) ==
  LET dpi == Get(sensor, <<"d", "p", "i">>)
      errors ==
        IF ~IsNumber(dpi)
        THEN <<Diagnostic(basePath \o <<Lit(".dpi")>>,
                          <<Lit("DPI value must be a number")>>, "error", "dpi")>>
        ELSE IF OutOfRange(dpi, DPI_MIN, DPI_MAX)
        THEN <<Diagnostic(basePath \o <<Lit(".dpi")>>,
                          <<Lit("DPI must be between "), Num(DPI_MIN), Lit(" and "), Num(DPI_MAX)>>,
                          "error", "dpi")>>
        ELSE <<>>
      warnings ==
        IF errors = <<>> /\ (dpi.t = "NaN" \/ dpi.int % 50 # 0 \/ dpi.frac # <<>>)
        THEN <<Diagnostic(basePath \o <<Lit(".dpi")>>,
                          <<Lit("DPI values are typically multiples of 50")>>, "warning", "dpi")>>
        ELSE <<>>
  IN ValidationResult(errors, warnings)

\* the number of sensors with a truthy default
RECURSIVE DefaultCount(_)
DefaultCount(sensors) ==
  IF sensors = <<>> THEN 0
  ELSE (IF Truthy(Get(Head(sensors), <<"d", "e", "f", "a", "u", "l", "t">>)) THEN 1 ELSE 0) + DefaultCount(Tail(sensors))

\* the error of the default-sensor rule raised from three default sensors on
DefaultErrors_AllowsTwo(defaultCount, basePath) ==
  IF defaultCount > 2
  THEN <<Diagnostic(basePath \o <<Lit(".sensors")>>,
                    <<Lit("Only one DPI sensor can be marked as default")>>, "error", "")>>
  ELSE <<>>

\* else if (defaultCount > 1) errors.push(...)
DefaultErrors(defaultCount, basePath) ==
  IF defaultCount > 1
  THEN <<Diagnostic(basePath \o <<Lit(".sensors")>>,
                    <<Lit("Only one DPI sensor can be marked as default")>>, "error", "")>>
  ELSE <<>>

\* if (defaultCount === 0) warnings.push(...)
DefaultWarnings(defaultCount, basePath) ==
  IF defaultCount = 0
  THEN <<Diagnostic(basePath \o <<Lit(".sensors")>>,
                    <<Lit("No default DPI sensor specified")>>, "warning", "")>>
  ELSE <<>>

\* validateDPISettings
validateDPISettings(dpi, basePath) ==
  LET sensors == Get(dpi, <<"s", "e", "n", "s", "o", "r", "s">>) IN
  IF ~Truthy(sensors) \/ ~IsArray(sensors)
  THEN ValidationResult(<<Diagnostic(basePath \o <<Lit(".sensors")>>,
                                     <<Lit("DPI sensors array is required")>>, "error", "")>>, <<>>)
  ELSE IF Len(sensors.e) = 0
  THEN ValidationResult(<<Diagnostic(basePath \o <<Lit(".sensors")>>,
                                     <<Lit("At least one DPI sensor must be configured")>>,
                                     "error", "")>>, <<>>)
  ELSE LET results == [i \in 1..Len(sensors.e) |->
                         validateDPISensor(sensors.e[i],
                                           basePath \o <<Lit(".sensors["), Num(i - 1), Lit("]")>>)]
           defaultCount == DefaultCount(sensors.e)
       IN ValidationResult(Pushed(results, "errors") \o DefaultErrors(defaultCount, basePath),
                           Pushed(results, "warnings") \o DefaultWarnings(defaultCount, basePath))

\* validTypes of validateButtonAction
validTypes ==
  <<<<"k", "e", "y">>, <<"g", "e", "s", "t", "u", "r", "e">>, <<"c", "h", "a", "n", "g", "e", "D", "P", "I">>, <<"t", "o", "g", "g", "l", "e", "S", "m", "a", "r", "t", "S", "h", "i", "f", "t">>, <<"c", "y", "c", "l", "e", "H", "i", "R", "e", "s">>, <<"t", "o", "g", "g", "l", "e", "H", "i", "R", "e", "s">>>>

\* Array.prototype.includes on strings
Includes(list, s) == \E i \in 1..Len(list) : list[i] = s

\* validateButtonAction; action.type is a string when it is given
validateButtonAction(action, basePath) ==
  LET type == Get(action, <<"t", "y", "p", "e">>)
      parameters == Get(action, <<"p", "a", "r", "a", "m", "e", "t", "e", "r", "s">>)
      keys == Get(parameters, <<"k", "e", "y", "s">>)
      sensor == Get(parameters, <<"s", "e", "n", "s", "o", "r">>)
      typeErrors ==
        IF ~Truthy(type)
        THEN <<Diagnostic(basePath \o <<Lit(".type")>>,
                          <<Lit("Action type is required")>>, "error", "type")>>
        ELSE IF ~Includes(validTypes, type.s)
        THEN <<Diagnostic(basePath \o <<Lit(".type")>>,
                          <<Lit("Action type must be one of: "),
                            Chars(join(validTypes, <<",", " ">>))>>, "error", "type")>>
        ELSE <<>>
      keyErrors ==
        IF type = StrV(<<"k", "e", "y">>) /\ Truthy(keys) /\ (~IsArray(keys) \/ Len(keys.e) = 0)
        THEN <<Diagnostic(basePath \o <<Lit(".parameters.keys")>>,
                          <<Lit("Key action requires at least one key")>>, "error", "")>>
        ELSE <<>>
      sensorErrors ==
        IF type = StrV(<<"c", "h", "a", "n", "g", "e", "D", "P", "I">>) /\ sensor # Undefined
           /\ (~IsNumber(sensor) \/ (sensor.t = "number" /\ sensor.int < 0))
        THEN <<Diagnostic(basePath \o <<Lit(".parameters.sensor")>>,
                          <<Lit("Sensor index must be a non-negative number")>>, "error", "")>>
        ELSE <<>>
  IN ValidationResult(typeErrors \o keyErrors \o sensorErrors, <<>>)

\* the result of validateButtonAction on a given action, "is required" on none
ActionResult(action, basePath, required) ==
  IF ~Truthy(action)
  THEN ValidationResult(<<Diagnostic(basePath \o <<Lit(".action")>>, <<Lit(required)>>, "error", "")>>,
                        <<>>)
  ELSE validateButtonAction(action, basePath \o <<Lit(".action")>>)

\* validateButtonMapping; button.cid is a string when it is given
validateButtonMapping(button, basePath) ==
  LET cid == Get(button, <<"c", "i", "d">>)
      cidErrors ==
        IF ~Truthy(cid)
        THEN <<Diagnostic(basePath \o <<Lit(".cid")>>,
                          <<Lit("Button control ID (cid) is required")>>, "error", "cid")>>
        ELSE IF ~BUTTON_CID_PATTERN(cid.s)
        THEN <<Diagnostic(basePath \o <<Lit(".cid")>>,
                          <<Lit("Button control ID must be in hexadecimal format (e.g., 0x52)")>>,
                          "error", "cid")>>
        ELSE <<>>
      actionResult == ActionResult(Get(button, <<"a", "c", "t", "i", "o", "n">>), basePath, "Button action is required")
  IN ValidationResult(cidErrors \o actionResult.errors, actionResult.warnings)

validDirections == <<<<"u", "p">>, <<"d", "o", "w", "n">>, <<"l", "e", "f", "t">>, <<"r", "i", "g", "h", "t">>, <<"n", "o", "n", "e">>>>

validModes == <<<<"O", "n", "R", "e", "l", "e", "a", "s", "e">>, <<"O", "n", "F", "e", "w", "P", "i", "x", "e", "l", "s">>, <<"O", "n", "I", "n", "t", "e", "r", "v", "a", "l">>>>

\* one of the two checks of a required string of a gesture
RequiredOneOf(value, valid, path, name, field) ==
  IF ~Truthy(value)
  THEN <<Diagnostic(path, <<Lit("Gesture "), Lit(name), Lit(" is required")>>, "error", field)>>
  ELSE IF ~Includes(valid, value.s)
  THEN <<Diagnostic(path, <<Lit("Gesture "), Lit(name), Lit(" must be one of: "),
                            Chars(join(valid, <<",", " ">>))>>, "error", field)>>
  ELSE <<>>

\* the check of threshold and of interval under the mode that reads it
RangeErrors(gesture, mode, key, min, max, path, name, field) ==
  LET value == Get(gesture, key) IN
  IF Get(gesture, <<"m", "o", "d", "e">>) = StrV(mode) /\ value # Undefined
     /\ (~IsNumber(value) \/ OutOfRange(value, min, max))
  THEN <<Diagnostic(path, <<Lit(name), Lit(" must be between "), Num(min), Lit(" and "), Num(max)>>,
                    "error", field)>>
  ELSE <<>>

\* validateGestureMapping; direction and mode are strings when they are given
validateGestureMapping(gesture, basePath) ==
  LET actionResult == ActionResult(Get(gesture, <<"a", "c", "t", "i", "o", "n">>), basePath, "Gesture action is required")
  IN ValidationResult(
       RequiredOneOf(Get(gesture, <<"d", "i", "r", "e", "c", "t", "i", "o", "n">>), validDirections,
                     basePath \o <<Lit(".direction")>>, "direction", "direction")
         \o RequiredOneOf(Get(gesture, <<"m", "o", "d", "e">>), validModes,
                          basePath \o <<Lit(".mode")>>, "mode", "mode")
         \o RangeErrors(gesture, <<"O", "n", "F", "e", "w", "P", "i", "x", "e", "l", "s">>, <<"t", "h", "r", "e", "s", "h", "o", "l", "d">>,
                        GESTURE_THRESHOLD_MIN, GESTURE_THRESHOLD_MAX,
                        basePath \o <<Lit(".threshold")>>, "Threshold", "threshold")
         \o RangeErrors(gesture, <<"O", "n", "I", "n", "t", "e", "r", "v", "a", "l">>, <<"i", "n", "t", "e", "r", "v", "a", "l">>,
                        GESTURE_INTERVAL_MIN, GESTURE_INTERVAL_MAX,
                        basePath \o <<Lit(".interval")>>, "Interval", "interval")
         \o actionResult.errors,
       actionResult.warnings)

\* the check of hires, invert and target
BooleanErrors(scrollWheel, key, path, name, field) ==
  LET value == Get(scrollWheel, key) IN
  IF value # Undefined /\ value.t # "boolean"
  THEN <<Diagnostic(path, <<Lit(name), Lit(" setting must be a boolean")>>, "error", field)>>
  ELSE <<>>

\* directions of validateScrollWheelSettings
directions == <<<<"u", "p">>, <<"d", "o", "w", "n">>, <<"l", "e", "f", "t">>, <<"r", "i", "g", "h", "t">>>>

\* validateScrollWheelSettings
validateScrollWheelSettings(scrollWheel, basePath) ==
  LET results ==
        [i \in 1..Len(directions) |->
           IF Truthy(Get(scrollWheel, directions[i]))
           THEN validateButtonAction(Get(scrollWheel, directions[i]),
                                     basePath \o <<Lit("."), Chars(directions[i])>>)
           ELSE ValidationResult(<<>>, <<>>)]
  IN ValidationResult(
       BooleanErrors(scrollWheel, <<"h", "i", "r", "e", "s">>, basePath \o <<Lit(".hires")>>, "HiRes", "hires")
         \o BooleanErrors(scrollWheel, <<"i", "n", "v", "e", "r", "t">>, basePath \o <<Lit(".invert")>>, "Invert", "invert")
         \o BooleanErrors(scrollWheel, <<"t", "a", "r", "g", "e", "t">>, basePath \o <<Lit(".target")>>, "Target", "target")
         \o Pushed(results, "errors"),
       Pushed(results, "warnings"))

\* the results of one validator on the elements of device.buttons or
\* device.gestures, an array when it is given
SectionResults(list, validator, basePath, name) ==
  IF ~Truthy(list) THEN <<>>
  ELSE [i \in 1..Len(list.e) |->
          LET path == basePath \o <<Lit(name), Num(i - 1), Lit("]")>> IN
          IF validator = "button" THEN validateButtonMapping(list.e[i], path)
          ELSE validateGestureMapping(list.e[i], path)]

\* validateDevice; basePath and every path are sequences of message pieces
validateDevice(device, basePath) ==
  LET nameErrors ==
        IF device.name = <<>> \/ trim(device.name) = <<>>
        THEN <<Diagnostic(basePath \o <<Lit(".name")>>,
                          <<Lit("Device name is required")>>, "error", "name")>>
        ELSE <<>>
      vidErrors ==
        IF device.vid = <<>>
        THEN <<Diagnostic(basePath \o <<Lit(".vid")>>,
                          <<Lit("Vendor ID (vid) is required")>>, "error", "vid")>>
        ELSE IF ~DEVICE_ID_PATTERN(device.vid)
        THEN <<Diagnostic(basePath \o <<Lit(".vid")>>,
                          <<Lit("Vendor ID must be in hexadecimal format (e.g., 0x046d)")>>,
                          "error", "vid")>>
        ELSE <<>>
      pidErrors ==
        IF device.pid = <<>>
        THEN <<Diagnostic(basePath \o <<Lit(".pid")>>,
                          <<Lit("Product ID (pid) is required")>>, "error", "pid")>>
        ELSE IF ~DEVICE_ID_PATTERN(device.pid)
        THEN <<Diagnostic(basePath \o <<Lit(".pid")>>,
                          <<Lit("Product ID must be in hexadecimal format (e.g., 0x4082)")>>,
                          "error", "pid")>>
        ELSE <<>>
      known ==
        \E i \in 1..Len(COMMON_LOGITECH_DEVICES) :
          /\ COMMON_LOGITECH_DEVICES[i].vid = device.vid
          /\ COMMON_LOGITECH_DEVICES[i].pid = device.pid
      unknown ==
        IF device.vid # <<>> /\ device.pid # <<>> /\ ~known
        THEN <<Diagnostic(basePath,
                          <<Lit("Device "), Chars(device.vid), Lit(":"), Chars(device.pid),
                            Lit(" is not in the known devices list")>>,
                          "warning", "")>>
        ELSE <<>>
      sections ==
        (IF Truthy(Opt(device, "dpi"))
         THEN <<validateDPISettings(device.dpi, basePath \o <<Lit(".dpi")>>)>> ELSE <<>>)
        \o SectionResults(Opt(device, "buttons"), "button", basePath, ".buttons[")
        \o SectionResults(Opt(device, "gestures"), "gesture", basePath, ".gestures[")
        \o (IF Truthy(Opt(device, "scrollWheel"))
            THEN <<validateScrollWheelSettings(device.scrollWheel,
                                               basePath \o <<Lit(".scrollWheel")>>)>>
            ELSE <<>>)
  IN ValidationResult(nameErrors \o vidErrors \o pidErrors \o Pushed(sections, "errors"),
                      unknown \o Pushed(sections, "warnings"))

\* `${d.vid}:${d.pid}`
DeviceId(d) == d.vid \o <<":">> \o d.pid

\* deviceIds.filter((id, index) => deviceIds.indexOf(id) !== index)
RECURSIVE Duplicates(_, _)
Duplicates(deviceIds, index) ==
  IF index > Len(deviceIds) THEN <<>>
  ELSE (IF \E j \in 1..(index - 1) : deviceIds[j] = deviceIds[index]
        THEN <<deviceIds[index]>> ELSE <<>>)
       \o Duplicates(deviceIds, index + 1)

\* validateConfiguration; a property that is not given is missing from the record
validateConfiguration(config) ==
  LET metadataErrors ==
        IF "metadata" \notin DOMAIN config
        THEN <<Diagnostic(<<Lit("metadata")>>, <<Lit("Configuration metadata is required")>>,
                          "error", "")>>
        ELSE <<>>
  IN IF "devices" \notin DOMAIN config
     THEN ValidationResult(
            metadataErrors \o <<Diagnostic(<<Lit("devices")>>, <<Lit("Devices array is required")>>,
                                           "error", "")>>, <<>>)
     ELSE IF Len(config.devices) = 0
     THEN ValidationResult(
            metadataErrors,
            <<Diagnostic(<<Lit("devices")>>, <<Lit("No devices configured")>>, "warning", "")>>)
     ELSE LET results == [i \in 1..Len(config.devices) |->
                            validateDevice(config.devices[i],
                                           <<Lit("devices["), Num(i - 1), Lit("]")>>)]
              duplicates == Duplicates([i \in 1..Len(config.devices) |->
                                          DeviceId(config.devices[i])], 1)
          IN ValidationResult(
               metadataErrors \o Pushed(results, "errors")
                 \o (IF Len(duplicates) > 0
                     THEN <<Diagnostic(<<Lit("devices")>>,
                                       <<Lit("Duplicate devices found: "),
                                         Chars(join(duplicates, <<",", " ">>))>>, "error", "")>>
                     ELSE <<>>),
               Pushed(results, "warnings"))

----------------------------------------------------------------------------
(* Inputs *)

\* longest text over RawAlphabet
MaxRawLen == 3

\* longest device name of a generated configuration
MaxNameLen == 2

\* most occurrences of the devices key in a hand-written text
MaxOccurrences == 2

RawAlphabet ==
  {"\n", " ", "/", "#", "\"", "\\", "0", "x", "a", ":", "{", "}", "(", ")", ";", "@"}

RawTexts == UNION {[1..n -> RawAlphabet] : n \in 0..MaxRawLen}

NameAlphabet == {"a", "B", " ", "\"", "\\"}

Names == UNION {[1..n -> NameAlphabet] : n \in 1..MaxNameLen}

\* vendor and product ids matching DEVICE_ID_PATTERN
Vids == {<<"0", "x", "0", "4", "6", "d">>, <<"0", "x", "1", "2", "A", "B">>}

Pids == {<<"0", "x", "4", "0", "8", "2">>, <<"0", "x", "C", "0", "8", "B">>, <<"0", "x", "0", "0", "0", "0">>}

IsoDate == <<"2", "0", "2", "4", "-", "0", "1", "-", "0", "1", "T", "0", "0", ":", "0", "0", ":", "0", "0", ".", "0", "0", "0", "Z">>

GenMetadata == [version |-> "1.0.0", created |-> IsoDate, modified |-> IsoDate]

\* configurations handed to generateConfigFile: no device or one device
GenConfigs ==
  {[devices |-> <<>>, metadata |-> GenMetadata]}
  \cup {[devices |-> <<[name |-> n, vid |-> v, pid |-> p]>>, metadata |-> GenMetadata] :
          n \in Names, v \in Vids, p \in Pids}

\* A hand-written text: one device block per occurrence of the devices key,
\* the block of occurrence i named by the i-th letter
BlockNames == <<<<"A">>, <<"B">>, <<"C">>, <<"D">>>>

BlockFields ==
  {<<"name", "vid", "pid">>, <<"name", "vid">>, <<"name", "pid">>, <<"name">>, <<"vid", "pid">>}

Occurrences == [form : {"array", "object"}, fields : BlockFields]

Written ==
  [kind : {"written"},
   occurrences : UNION {[1..n -> Occurrences] : n \in 1..MaxOccurrences},
   tail : {"none", "unclosed", "emptyname"}]

RECURSIVE FieldsText(_, _)
FieldsText(fields, i) ==
  IF fields = <<>> THEN <<>>
  ELSE (CASE Head(fields) = "name" -> <<" ", "n", "a", "m", "e", ":", " ", "\"">> \o BlockNames[i] \o <<"\"", ";">>
          [] Head(fields) = "vid" -> <<" ", "v", "i", "d", ":", " ", "0", "x", "0", "4", "6", "D", ";">>
          [] Head(fields) = "pid" -> <<" ", "p", "i", "d", ":", " ", "0", "x", "4", "0", "8", "2", ";">>)
       \o FieldsText(Tail(fields), i)

BlockText(occ, i) == <<"{">> \o FieldsText(occ.fields, i) \o <<" ", "}">>

OccurrenceText(occ, i) ==
  IF occ.form = "array"
  THEN <<"d", "e", "v", "i", "c", "e", "s", ":", " ", "(">> \o BlockText(occ, i) \o <<")", ";">>
  ELSE <<"d", "e", "v", "i", "c", "e", "s", ":", " ">> \o BlockText(occ, i) \o <<";">>

TailText(tail) ==
  CASE tail = "none" -> <<>>
    [] tail = "unclosed" -> <<<<"o", "p", "t", "s", ":", " ", "{">>, <<" ", " ", "o", "n", ":", " ", "t", "r", "u", "e", ";">>>>
    [] tail = "emptyname" -> <<<<":", " ", "{">>, <<"}", ";">>>>

WrittenText(o) ==
  join([i \in 1..Len(o.occurrences) |-> OccurrenceText(o.occurrences[i], i)]
       \o TailText(o.tail), <<"\n">>)

\* longest run of hex digits of a written vid, pid or cid
MaxHexLen == 2

\* most strings in a written keys list
MaxKeys == 3

\* largest sensor number of a changeDPI action
MaxSensor == 1

HexAlphabet == {"0", "5", "a", "D"}

HexPrefixes == {<<>>, <<"0", "x">>, <<"0", "X">>}

\* hex strings: hex digits in either case behind no prefix, 0x or 0X
HexStrings == [prefix : HexPrefixes, digits : UNION {[1..n -> HexAlphabet] : n \in 1..MaxHexLen}]

HexText(h) == h.prefix \o h.digits

\* a text of one device named A in the array form, body being the lines
\* after the name
DeviceText(body) ==
  join(<<<<"d", "e", "v", "i", "c", "e", "s", ":", " ", "(">>, <<"{">>, <<" ", " ", "n", "a", "m", "e", ":", " ", "\"", "A", "\"", ";">>>> \o body \o <<<<"}">>, <<")", ";">>>>, <<"\n">>)

\* texts writing one of vid, pid and cid as a hex string
IdTexts == [kind : {"ids"}, where : {"vid", "pid", "cid"}, hex : HexStrings]

IdText(o) ==
  DeviceText(<<<<" ", " ", "v", "i", "d", ":", " ">> \o (IF o.where = "vid" THEN HexText(o.hex) ELSE <<"0", "x", "0", "4", "6", "d">>) \o <<";">>,
               <<" ", " ", "p", "i", "d", ":", " ">> \o (IF o.where = "pid" THEN HexText(o.hex) ELSE <<"0", "x", "4", "0", "8", "2">>) \o <<";">>,
               <<" ", " ", "b", "u", "t", "t", "o", "n", "s", ":", " ", "(">>,
               <<" ", " ", "{">>,
               <<" ", " ", " ", " ", "c", "i", "d", ":", " ">> \o (IF o.where = "cid" THEN HexText(o.hex) ELSE <<"0", "x", "c", "3">>) \o <<";">>,
               <<" ", " ", " ", " ", "a", "c", "t", "i", "o", "n", " ", "=", " ", "{">>,
               <<" ", " ", " ", " ", " ", " ", "t", "y", "p", "e", ":", " ", "\"", "K", "e", "y", "p", "r", "e", "s", "s", "\"", ";">>,
               <<" ", " ", " ", " ", " ", " ", "k", "e", "y", "s", ":", " ", "(", "\"", "K", "E", "Y", "_", "A", "\"", ")", ";">>,
               <<" ", " ", " ", " ", "}", ";">>,
               <<" ", " ", "}">>,
               <<" ", " ", ")", ";">>>>)

TypeSpellings ==
  {<<"k", "e", "y", "p", "r", "e", "s", "s">>, <<"K", "e", "y", "p", "r", "e", "s", "s">>, <<"K", "e", "y", "P", "r", "e", "s", "s">>, <<"k", "e", "y">>, <<"g", "e", "s", "t", "u", "r", "e", "s">>, <<"G", "e", "s", "t", "u", "r", "e", "s">>, <<"g", "e", "s", "t", "u", "r", "e">>,
   <<"c", "h", "a", "n", "g", "e", "d", "p", "i">>, <<"C", "h", "a", "n", "g", "e", "D", "P", "I">>, <<"c", "h", "a", "n", "g", "e", "D", "P", "I">>, <<"A", "x", "i", "s">>, <<"a", "x", "i", "s">>, <<"t", "o", "g", "g", "l", "e", "S", "m", "a", "r", "t", "S", "h", "i", "f", "t">>,
   <<"T", "o", "g", "g", "l", "e", "S", "m", "a", "r", "t", "S", "h", "i", "f", "t">>, <<"c", "y", "c", "l", "e", "H", "i", "R", "e", "s">>, <<"t", "o", "g", "g", "l", "e", "H", "i", "R", "e", "s">>}

\* the lines of an action under a button, a gesture or the scroll wheel,
\* fields being the lines between its braces
ActionAt(path, fields) ==
  IF path = "button"
  THEN <<<<" ", " ", "b", "u", "t", "t", "o", "n", "s", ":", " ", "(">>, <<" ", " ", "{">>, <<" ", " ", " ", " ", "c", "i", "d", ":", " ", "0", "x", "c", "3", ";">>, <<" ", " ", " ", " ", "a", "c", "t", "i", "o", "n", " ", "=", " ", "{">>>>
       \o fields \o <<<<" ", " ", " ", " ", "}", ";">>, <<" ", " ", "}">>, <<" ", " ", ")", ";">>>>
  ELSE IF path = "gesture"
  THEN <<<<" ", " ", "g", "e", "s", "t", "u", "r", "e", "s", ":", " ", "(">>, <<" ", " ", "{">>, <<" ", " ", " ", " ", "d", "i", "r", "e", "c", "t", "i", "o", "n", ":", " ", "\"", "U", "p", "\"", ";">>, <<" ", " ", " ", " ", "m", "o", "d", "e", ":", " ", "\"", "O", "n", "R", "e", "l", "e", "a", "s", "e", "\"", ";">>,
         <<" ", " ", " ", " ", "a", "c", "t", "i", "o", "n", " ", "=", " ", "{">>>>
       \o fields \o <<<<" ", " ", " ", " ", "}", ";">>, <<" ", " ", "}">>, <<" ", " ", ")", ";">>>>
  ELSE <<<<" ", " ", "h", "i", "r", "e", "s", "s", "c", "r", "o", "l", "l", ":", " ", "{">>, <<" ", " ", " ", " ", "u", "p", ":", " ", "{">>>> \o fields \o <<<<" ", " ", " ", " ", "}", ";">>, <<" ", " ", "}", ";">>>>

\* texts writing an action of some type under a button, a gesture or the scroll wheel
ActionTexts == [kind : {"action"}, path : {"button", "gesture", "scroll"}, type : TypeSpellings]

ActionText(o) == DeviceText(ActionAt(o.path, <<<<" ", " ", " ", " ", " ", " ", "t", "y", "p", "e", ":", " ", "\"">> \o o.type \o <<"\"", ";">>>>))

KeyNames == <<<<"K", "E", "Y", "_", "A">>, <<"K", "E", "Y", "_", "B">>, <<"K", "E", "Y", "_", "C">>, <<"K", "E", "Y", "_", "D">>>>

\* texts writing the keys of a key action
KeysTexts ==
  [kind : {"keys"}, path : {"button", "gesture"}, form : {"paren", "bracket"}, n : 1..MaxKeys]
  \cup [kind : {"keys"}, path : {"button", "gesture"}, form : {"scalar"}, n : {1}]

RECURSIVE QuotedList(_, _)
\* the first n key names, quoted and separated by commas
QuotedList(n, from) ==
  IF from > n THEN <<>>
  ELSE <<"\"">> \o KeyNames[from] \o <<"\"">> \o (IF from < n THEN <<",", " ">> ELSE <<>>) \o QuotedList(n, from + 1)

KeysValue(o) ==
  IF o.form = "paren" THEN <<"(">> \o QuotedList(o.n, 1) \o <<")">>
  ELSE IF o.form = "bracket" THEN <<"[">> \o QuotedList(o.n, 1) \o <<"]">>
  ELSE QuotedList(1, 1)

KeysText(o) ==
  DeviceText(ActionAt(o.path, <<<<" ", " ", " ", " ", " ", " ", "t", "y", "p", "e", ":", " ", "\"", "K", "e", "y", "p", "r", "e", "s", "s", "\"", ";">>,
                                <<" ", " ", " ", " ", " ", " ", "k", "e", "y", "s", ":", " ">> \o KeysValue(o) \o <<";">>>>))

\* texts writing one directional entry of the scroll wheel
ScrollTexts ==
  [kind : {"scroll"},
   section : {<<"h", "i", "r", "e", "s", "s", "c", "r", "o", "l", "l">>, <<"s", "c", "r", "o", "l", "l", "w", "h", "e", "e", "l">>, <<"s", "c", "r", "o", "l", "l", "_", "w", "h", "e", "e", "l">>},
   direction : {<<"u", "p">>, <<"d", "o", "w", "n">>, <<"l", "e", "f", "t">>, <<"r", "i", "g", "h", "t">>},
   type : {<<>>, <<"A", "x", "i", "s">>},
   axis : {<<"R", "E", "L", "_", "W", "H", "E", "E", "L">>, <<>>},
   multiplier : {<<>>, <<"1">>, <<"0", ".", "5">>}]

ScrollText(o) ==
  DeviceText(<<<<" ", " ">> \o o.section \o <<":", " ", "{">>,
               <<" ", " ", " ", " ", "h", "i", "r", "e", "s", ":", " ", "t", "r", "u", "e", ";">>,
               <<" ", " ", " ", " ">> \o o.direction \o <<":", " ", "{">>>>
             \o (IF o.type # <<>> THEN <<<<" ", " ", " ", " ", " ", " ", "t", "y", "p", "e", ":", " ", "\"">> \o o.type \o <<"\"", ";">>>> ELSE <<>>)
             \o <<<<" ", " ", " ", " ", " ", " ", "m", "o", "d", "e", ":", " ", "\"", "A", "x", "i", "s", "\"", ";">>,
                  <<" ", " ", " ", " ", " ", " ", "a", "x", "i", "s", ":", " ", "\"">> \o o.axis \o <<"\"", ";">>>>
             \o (IF o.multiplier # <<>>
                 THEN <<<<" ", " ", " ", " ", " ", " ", "a", "x", "i", "s", "_", "m", "u", "l", "t", "i", "p", "l", "i", "e", "r", ":", " ">> \o o.multiplier \o <<";">>>> ELSE <<>>)
             \o <<<<" ", " ", " ", " ", "}", ";">>,
                  <<" ", " ", "}", ";">>>>)

\* typed actions handed to the generator
Action(type) == Obj1(<<"t", "y", "p", "e">>, StrV(type))

ActionWith(type, parameters) == Obj2(<<"t", "y", "p", "e">>, StrV(type), <<"p", "a", "r", "a", "m", "e", "t", "e", "r", "s">>, parameters)

KeyAction == ActionWith(<<"k", "e", "y">>, Obj1(<<"k", "e", "y", "s">>, ArrV(<<StrV(<<"K", "E", "Y", "_", "A">>)>>)))

AxisTypes == {<<"A", "x", "i", "s">>, <<"c", "y", "c", "l", "e", "H", "i", "R", "e", "s">>, <<"a", "x", "i", "s">>}

AxisActions ==
  {Action(t) : t \in AxisTypes}
  \cup {ActionWith(t, Obj1(<<"a", "x", "i", "s">>, StrV(<<"R", "E", "L", "_", "W", "H", "E", "E", "L">>))) : t \in AxisTypes}
  \cup {ActionWith(t, Obj2(<<"a", "x", "i", "s">>, StrV(<<"R", "E", "L", "_", "W", "H", "E", "E", "L">>), <<"a", "x", "i", "s", "_", "m", "u", "l", "t", "i", "p", "l", "i", "e", "r">>, NumV(2, <<>>))) :
          t \in AxisTypes}

NestedGesture ==
  Obj3(<<"d", "i", "r", "e", "c", "t", "i", "o", "n">>, StrV(<<"u", "p">>), <<"m", "o", "d", "e">>, StrV(<<"O", "n", "R", "e", "l", "e", "a", "s", "e">>), <<"a", "c", "t", "i", "o", "n">>, KeyAction)

TypedActions ==
  {KeyAction,
   ActionWith(<<"K", "e", "y", "p", "r", "e", "s", "s">>, Obj1(<<"k", "e", "y", "s">>, ArrV(<<StrV(<<"K", "E", "Y", "_", "A">>), StrV(<<"K", "E", "Y", "_", "B">>)>>))),
   ActionWith(<<"g", "e", "s", "t", "u", "r", "e">>, Obj1(<<"g", "e", "s", "t", "u", "r", "e", "s">>, ArrV(<<NestedGesture>>))),
   Action(<<"G", "e", "s", "t", "u", "r", "e", "s">>),
   Action(<<"t", "o", "g", "g", "l", "e", "S", "m", "a", "r", "t", "S", "h", "i", "f", "t">>), Action(<<"T", "o", "g", "g", "l", "e", "S", "m", "a", "r", "t", "S", "h", "i", "f", "t">>),
   Action(<<"t", "o", "g", "g", "l", "e", "H", "i", "R", "e", "s">>), Action(<<"T", "o", "g", "g", "l", "e", "H", "i", "R", "e", "s">>), Action(<<"C", "y", "c", "l", "e", "H", "i", "R", "e", "s">>)}
  \cup {ActionWith(t, Obj1(<<"s", "e", "n", "s", "o", "r">>, NumV(n, <<>>))) :
          t \in {<<"c", "h", "a", "n", "g", "e", "D", "P", "I">>, <<"C", "h", "a", "n", "g", "e", "D", "P", "I">>}, n \in 0..MaxSensor}
  \cup AxisActions

Button(cid, action) == Obj2(<<"c", "i", "d">>, StrV(cid), <<"a", "c", "t", "i", "o", "n">>, action)

ButtonLists ==
  {ArrV(<<>>)}
  \cup {ArrV(<<Button(<<"0", "x", "c", "3">>, a)>>) : a \in TypedActions}
  \cup {ArrV(<<Button(<<"0", "x", "5", "0">>, KeyAction), Button(<<"0", "x", "C", "3">>, Action(<<"t", "o", "g", "g", "l", "e", "S", "m", "a", "r", "t", "S", "h", "i", "f", "t">>))>>)}

DeviceGesture ==
  Obj3(<<"d", "i", "r", "e", "c", "t", "i", "o", "n">>, StrV(<<"d", "o", "w", "n">>), <<"m", "o", "d", "e">>, StrV(<<"O", "n", "F", "e", "w", "P", "i", "x", "e", "l", "s">>), <<"a", "c", "t", "i", "o", "n">>, KeyAction)

GestureLists ==
  {ArrV(<<>>),
   ArrV(<<DeviceGesture>>),
   ArrV(<<Put(Put(DeviceGesture, <<"t", "h", "r", "e", "s", "h", "o", "l", "d">>, NumV(15, <<>>)), <<"i", "n", "t", "e", "r", "v", "a", "l">>, NumV(200, <<>>))>>)}

Sensor(dpi) == Obj1(<<"d", "p", "i">>, NumV(dpi, <<>>))

DpiSettings ==
  {Obj1(<<"s", "e", "n", "s", "o", "r", "s">>, ArrV(<<>>)),
   Obj1(<<"s", "e", "n", "s", "o", "r", "s">>, ArrV(<<Sensor(1000)>>)),
   Obj1(<<"s", "e", "n", "s", "o", "r", "s">>, ArrV(<<Sensor(800), Put(Sensor(1600), <<"d", "e", "f", "a", "u", "l", "t">>, BoolV(TRUE))>>))}

ScrollWheels ==
  {Obj2(<<"h", "i", "r", "e", "s">>, BoolV(TRUE), <<"u", "p">>, a) :
     a \in {ActionWith(<<"A", "x", "i", "s">>, Obj2(<<"a", "x", "i", "s">>, StrV(<<"R", "E", "L", "_", "W", "H", "E", "E", "L">>), <<"a", "x", "i", "s", "_", "m", "u", "l", "t", "i", "p", "l", "i", "e", "r">>, NumV(1, <<>>))),
            ActionWith(<<"g", "e", "s", "t", "u", "r", "e">>, Obj1(<<"g", "e", "s", "t", "u", "r", "e", "s">>, ArrV(<<NestedGesture>>)))}}

\* a device with one optional property set or left out
Optional(devices, key, values) ==
  devices \cup {With(d, key, v) : d \in devices, v \in values}

TypedNames == {<<"A">>, <<"\\", "\"">>}

TypedDevice(name) == [name |-> name, vid |-> <<"0", "x", "0", "4", "6", "d">>, pid |-> <<"0", "x", "4", "0", "8", "2">>]

\* one device with a buttons list, and the devices with or without each of
\* dpi, gestures and scrollWheel
TypedDevices ==
  {With(TypedDevice(<<"A">>), "buttons", b) : b \in ButtonLists}
  \cup {With(With(With(TypedDevice(<<"A">>), "buttons", ArrV(<<>>)), "gestures", ArrV(<<>>)),
              "dpi", Obj1(<<"s", "e", "n", "s", "o", "r", "s">>, ArrV(<<>>)))}
  \cup Optional(Optional(Optional({TypedDevice(n) : n \in TypedNames}, "dpi", DpiSettings),
                          "gestures", GestureLists),
                 "scrollWheel", ScrollWheels)

\* configurations handed to generateConfigFile: one device, and two devices
\* with a timeout and smartshift
TypedConfigs ==
  {[devices |-> <<d>>, metadata |-> GenMetadata] : d \in TypedDevices}
  \cup {[devices |-> <<With([name |-> <<"A">>, vid |-> <<"0", "x", "0", "4", "6", "d">>, pid |-> <<"0", "x", "4", "0", "8", "2">>],
                           "timeout", NumV(1500, <<>>)),
                      With([name |-> <<"B">>, vid |-> <<"0", "x", "0", "4", "6", "d">>, pid |-> <<"0", "x", "c", "0", "8", "b">>],
                           "smartshift", Obj2(<<"o", "n">>, BoolV(TRUE), <<"t", "h", "r", "e", "s", "h", "o", "l", "d">>, NumV(20, <<>>)))>>,
         metadata |-> GenMetadata]}

\* the texts tokenized step by step
Inputs ==
  {[origin |-> [kind |-> "raw"], content |-> t] : t \in RawTexts}
  \cup {[origin |-> [kind |-> "generated", config |-> c],
         content |-> generateConfigFile(c)] : c \in GenConfigs}
  \cup {[origin |-> o, content |-> WrittenText(o)] : o \in Written}

\* the keys device.scrollWheel is read from, in the order the mapper tries them
SynonymKeys == <<<<"h", "i", "r", "e", "s", "s", "c", "r", "o", "l", "l">>, <<"s", "c", "r", "o", "l", "l", "w", "h", "e", "e", "l">>, <<"s", "c", "r", "o", "l", "l", "_", "w", "h", "e", "e", "l">>>>

\* the setting written in the first, second and third section of a text
SynonymSettings == <<<<"h", "i", "r", "e", "s">>, <<"i", "n", "v", "e", "r", "t">>, <<"t", "a", "r", "g", "e", "t">>>>

\* texts writing two or three of the synonym sections in one device, in any
\* order, each with a setting of its own
SynonymTexts ==
  {[kind |-> "synonyms", sections |-> s] :
     s \in {f \in [1..2 -> 1..3] \cup [1..3 -> 1..3] :
              \A i, j \in DOMAIN f : i # j => f[i] # f[j]}}

SynonymText(o) ==
  DeviceText([i \in 1..Len(o.sections) |->
                <<" ", " ">> \o SynonymKeys[o.sections[i]] \o <<":", " ", "{", " ">>
                  \o SynonymSettings[i] \o <<":", " ", "t", "r", "u", "e", ";", " ", "}", ";">>])

\* the texts handed to parseConfigFile in one call
Texts ==
  {[origin |-> o, content |-> IdText(o)] : o \in IdTexts}
  \cup {[origin |-> o, content |-> ActionText(o)] : o \in ActionTexts}
  \cup {[origin |-> o, content |-> KeysText(o)] : o \in KeysTexts}
  \cup {[origin |-> o, content |-> ScrollText(o)] : o \in ScrollTexts}
  \cup {[origin |-> o, content |-> SynonymText(o)] : o \in SynonymTexts}

Init ==
  /\ \/ \E input \in Inputs :
          /\ origin = input.origin
          /\ content = input.content
          /\ pc = "tokenize"
     \/ \E input \in Texts :
          /\ origin = input.origin
          /\ content = input.content
          /\ pc = "call"
     \/ \E config \in TypedConfigs :
          /\ origin = [kind |-> "config", config |-> config]
          /\ content = <<>>
          /\ pc = "generate"
     \/ \E h \in HexStrings :
          /\ origin = [kind |-> "hex", hex |-> h]
          /\ content = HexText(h)
          /\ pc = "normalize"
  /\ lines = split(content)
  /\ lineNum = 0
  /\ column = 0
  /\ tokens = <<>>
  /\ parsed = Undefined
  /\ syntax = Undefined
  /\ validation = Undefined
  /\ regenerated = Undefined
  /\ reparsed = Undefined
  /\ checked = Undefined
  /\ app = Undefined
  /\ manager = Undefined
  /\ calls = Undefined

----------------------------------------------------------------------------
(* tokenize, one pass of the scanning loop per step *)

CurLine == lines[lineNum + 1]

Scanning(b) ==
  /\ pc = "tokenize"
  /\ lineNum < Len(lines)
  /\ column < Len(CurLine)
  /\ Branch(CurLine, column) = b

Continue(s) ==
  /\ column' = s.column
  /\ tokens' = s.tokens
  /\ UNCHANGED <<components, origin, content, lines, lineNum, pc, parsed, syntax, validation, regenerated, reparsed>>

TokWhitespace ==
  /\ Scanning("whitespace")
  /\ Continue(StepWhitespace(CurLine, lineNum, column, tokens))

\* break: the rest of the line is skipped and the for loop moves on
TokComment ==
  /\ Scanning("comment")
  /\ lineNum' = lineNum + 1
  /\ column' = 0
  /\ tokens' = StepComment(CurLine, lineNum, column, tokens).tokens
  /\ UNCHANGED <<components, origin, content, lines, pc, parsed, syntax, validation, regenerated, reparsed>>

TokString ==
  /\ Scanning("string")
  /\ Continue(StepString(CurLine, lineNum, column, tokens))

TokNumber ==
  /\ Scanning("number")
  /\ Continue(StepNumber(CurLine, lineNum, column, tokens))

TokIdentifier ==
  /\ Scanning("identifier")
  /\ Continue(StepIdentifier(CurLine, lineNum, column, tokens))

TokPunct ==
  /\ Scanning("punct")
  /\ Continue(StepPunct(CurLine, lineNum, column, tokens))

TokUnknown ==
  /\ Scanning("unknown")
  /\ Continue(StepUnknown(CurLine, lineNum, column, tokens))

\* column reached line.length: lineNum++
TokEndOfLine ==
  /\ pc = "tokenize"
  /\ lineNum < Len(lines)
  /\ column >= Len(CurLine)
  /\ lineNum' = lineNum + 1
  /\ column' = 0
  /\ UNCHANGED <<components, origin, content, lines, tokens, pc, parsed, syntax, validation, regenerated, reparsed>>

\* lineNum reached lines.length: return tokens
TokReturn ==
  /\ pc = "tokenize"
  /\ lineNum >= Len(lines)
  /\ pc' = "tokenized"
  /\ UNCHANGED <<components, origin, content, lines, lineNum, column, tokens, parsed, syntax, validation, regenerated, reparsed>>

----------------------------------------------------------------------------
(* The calls made on the text *)

\* parseConfigFile(content), continuing from the tokens of content
ParseConfigFile ==
  /\ pc = "tokenized"
  /\ parsed' = parseConfigFileTokens(tokens, content, Undefined)
  /\ pc' = "parsed"
  /\ UNCHANGED <<components, origin, content, lines, lineNum, column, tokens, syntax, validation, regenerated, reparsed>>

\* validateConfigSyntax(content)
ValidateConfigSyntax ==
  /\ pc = "parsed"
  /\ syntax' = validateConfigSyntax(content)
  /\ pc' = "checked"
  /\ UNCHANGED <<components, origin, content, lines, lineNum, column, tokens, parsed, validation, regenerated, reparsed>>

\* validateDevice on every device parseConfigFile returned, with the base
\* path validateConfiguration gives it
ValidateDevices ==
  /\ pc = "checked"
  /\ parsed.ok
  /\ validation' =
       [i \in 1..Len(parsed.config.devices) |->
          validateDevice(parsed.config.devices[i], <<Lit("devices["), Num(i - 1), Lit("]")>>)]
  /\ pc' = "validated"
  /\ UNCHANGED <<components, origin, content, lines, lineNum, column, tokens, parsed, syntax,
                 regenerated, reparsed>>

\* generateConfigFile(config) of a typed configuration
GenerateConfigFile ==
  /\ pc = "generate"
  /\ content' = generateConfigFile(origin.config)
  /\ pc' = "call"
  /\ UNCHANGED <<components, origin, lines, lineNum, column, tokens, parsed, syntax, validation,
                 regenerated, reparsed>>

\* parseConfigFile(content), the whole call
ParseText ==
  /\ pc = "call"
  /\ parsed' = parseConfigFile(content, Undefined)
  /\ pc' = "mapped"
  /\ UNCHANGED <<components, origin, content, lines, lineNum, column, tokens, syntax, validation,
                 regenerated, reparsed>>

\* generateConfigFile of the configuration parseConfigFile returned
RegenerateConfigFile ==
  /\ pc = "mapped"
  /\ origin.kind = "config"
  /\ parsed.ok
  /\ regenerated' = generateConfigFile([devices |-> parsed.config.devices, metadata |-> GenMetadata])
  /\ pc' = "regenerated"
  /\ UNCHANGED <<components, origin, content, lines, lineNum, column, tokens, parsed, syntax, validation,
                 reparsed>>

\* parseConfigFile of the regenerated text
ReparseText ==
  /\ pc = "regenerated"
  /\ reparsed' = parseConfigFile(regenerated, Undefined)
  /\ pc' = "reparsed"
  /\ UNCHANGED <<components, origin, content, lines, lineNum, column, tokens, parsed, syntax, validation,
                 regenerated>>

\* validateConfiguration of a typed configuration and of the configuration
\* parseConfigFile returned for its generated text
ValidateReloaded ==
  /\ pc = "mapped"
  /\ origin.kind = "config"
  /\ parsed.ok
  /\ validation' = [saved |-> validateConfiguration(origin.config),
                    reloaded |-> validateConfiguration(parsed.config)]
  /\ pc' = "revalidated"
  /\ UNCHANGED <<components, origin, content, lines, lineNum, column, tokens, parsed, syntax,
                 regenerated, reparsed>>

\* normalizeHexValue(h) and normalizeHexValue of its result
NormalizeHexValue ==
  /\ pc = "normalize"
  /\ parsed' = [once |-> normalizeHexValue(content),
                twice |-> normalizeHexValue(normalizeHexValue(content))]
  /\ pc' = "normalized"
  /\ UNCHANGED <<components, origin, content, lines, lineNum, column, tokens, syntax, validation,
                 regenerated, reparsed>>

Next ==
  \/ TokWhitespace
  \/ TokComment
  \/ TokString
  \/ TokNumber
  \/ TokIdentifier
  \/ TokPunct
  \/ TokUnknown
  \/ TokEndOfLine
  \/ TokReturn
  \/ ParseConfigFile
  \/ ValidateConfigSyntax
  \/ ValidateDevices
  \/ GenerateConfigFile
  \/ ParseText
  \/ RegenerateConfigFile
  \/ ReparseText
  \/ ValidateReloaded
  \/ NormalizeHexValue

Spec == Init /\ [][Next]_vars

----------------------------------------------------------------------------
(* The validators called on typed values *)

\* most sensors of a DPI settings value
MaxSensorCount == 3

\* most devices of a validated configuration
MaxDevices == 3

\* the pipeline at rest, in the specifications of the other components
IdlePipeline ==
  /\ origin = [kind |-> "none"]
  /\ content = <<>>
  /\ lines = <<>>
  /\ lineNum = 0
  /\ column = 0
  /\ tokens = <<>>
  /\ pc = "idle"
  /\ parsed = Undefined
  /\ syntax = Undefined
  /\ validation = Undefined
  /\ regenerated = Undefined
  /\ reparsed = Undefined

\* the sequences over a set of length 1 to n
SeqsUpTo(S, n) == UNION {[1..k -> S] : k \in 1..n}

DpiValues ==
  {NumV(1000, <<>>), NumV(825, <<>>), NumV(49, <<>>), NumV(50, <<>>), NumV(25600, <<>>),
   NumV(25600, <<"5">>), NumV(25601, <<>>), NumV(1000, <<"5">>), NaN, StrV(<<"8", "0", "0">>), Undefined}

DefaultValues == {Undefined, BoolV(TRUE), BoolV(FALSE), NumV(1, <<>>)}

\* { dpi, default }, a property left out when its value is undefined
SensorOf(dpi, default) ==
  ObjV((IF dpi = Undefined THEN <<>> ELSE <<[k |-> <<"d", "p", "i">>, v |-> dpi]>>)
       \o (IF default = Undefined THEN <<>> ELSE <<[k |-> <<"d", "e", "f", "a", "u", "l", "t">>, v |-> default]>>))

SensorInputs == {SensorOf(d, f) : d \in DpiValues, f \in DefaultValues}

\* the sensors of the lists: valid or not, default or not
ListedSensors ==
  {SensorOf(NumV(1000, <<>>), Undefined), SensorOf(NumV(1600, <<>>), BoolV(TRUE)),
   SensorOf(NumV(825, <<>>), BoolV(TRUE)), SensorOf(NumV(49, <<>>), BoolV(FALSE))}

DpiInputs ==
  {Obj1(<<"s", "e", "n", "s", "o", "r", "s">>, ArrV(s)) : s \in SeqsUpTo(ListedSensors, MaxSensorCount)}
  \cup {ObjV(<<>>), Obj1(<<"s", "e", "n", "s", "o", "r", "s">>, ArrV(<<>>)), Obj1(<<"s", "e", "n", "s", "o", "r", "s">>, StrV(<<"a", "l", "l">>))}

ActionInputs ==
  {ObjV(<<>>), Action(<<>>)}
  \cup {Action(validTypes[i]) : i \in 1..Len(validTypes)}
  \cup {Action(<<"K", "e", "y", "p", "r", "e", "s", "s">>), Action(<<"t", "o", "g", "g", "l", "e", "s", "m", "a", "r", "t", "s", "h", "i", "f", "t">>), Action(<<"A", "x", "i", "s">>)}
  \cup {ActionWith(<<"k", "e", "y">>, Obj1(<<"k", "e", "y", "s">>, k)) :
          k \in {ArrV(<<>>), ArrV(<<StrV(<<"K", "E", "Y", "_", "A">>)>>), StrV(<<"K", "E", "Y", "_", "A">>), StrV(<<>>)}}
  \cup {ActionWith(<<"c", "h", "a", "n", "g", "e", "D", "P", "I">>, Obj1(<<"s", "e", "n", "s", "o", "r">>, s)) :
          s \in {NumV(0, <<>>), NumV(-1, <<>>), StrV(<<"0">>), NaN}}
  \cup {ActionWith(<<"g", "e", "s", "t", "u", "r", "e">>, Obj1(<<"g", "e", "s", "t", "u", "r", "e", "s">>, ArrV(<<>>)))}

\* the actions given to buttons, gestures and scroll directions
FewActions == {KeyAction, Action(<<"K", "e", "y", "p", "r", "e", "s", "s">>), ActionWith(<<"c", "h", "a", "n", "g", "e", "D", "P", "I">>, Obj1(<<"s", "e", "n", "s", "o", "r">>, NumV(-1, <<>>)))}

ButtonInputs ==
  {ObjV((IF c = <<>> THEN <<>> ELSE <<[k |-> <<"c", "i", "d">>, v |-> StrV(c)]>>)
        \o (IF a = Undefined THEN <<>> ELSE <<[k |-> <<"a", "c", "t", "i", "o", "n">>, v |-> a]>>)) :
     c \in {<<>>, <<"0", "x", "c", "3">>, <<"c", "3">>, <<"0", "x", "C", "3", "F">>, <<"0", "x", "g", "1">>}, a \in FewActions \cup {Undefined}}

\* an object of the given members, those whose value is undefined left out
RECURSIVE Given(_)
Given(members) ==
  IF members = <<>> THEN <<>>
  ELSE (IF Head(members).v = Undefined THEN <<>> ELSE <<Head(members)>>) \o Given(Tail(members))

GestureInputs ==
  {ObjV(Given(<<[k |-> <<"d", "i", "r", "e", "c", "t", "i", "o", "n">>, v |-> d], [k |-> <<"m", "o", "d", "e">>, v |-> m],
                [k |-> <<"t", "h", "r", "e", "s", "h", "o", "l", "d">>, v |-> n], [k |-> <<"i", "n", "t", "e", "r", "v", "a", "l">>, v |-> n],
                [k |-> <<"a", "c", "t", "i", "o", "n">>, v |-> a]>>)) :
     d \in {Undefined, StrV(<<"u", "p">>), StrV(<<"n", "o", "n", "e">>), StrV(<<"U", "p">>)},
     m \in {Undefined, StrV(<<"O", "n", "R", "e", "l", "e", "a", "s", "e">>), StrV(<<"O", "n", "F", "e", "w", "P", "i", "x", "e", "l", "s">>), StrV(<<"O", "n", "I", "n", "t", "e", "r", "v", "a", "l">>), StrV(<<"o", "n", "r", "e", "l", "e", "a", "s", "e">>)},
     n \in {Undefined, NumV(0, <<>>), NumV(100, <<>>), NumV(101, <<>>), StrV(<<"5">>)},
     a \in {Undefined, KeyAction, Action(<<"K", "e", "y", "p", "r", "e", "s", "s">>)}}

ScrollInputs ==
  {ObjV(Given(<<[k |-> <<"h", "i", "r", "e", "s">>, v |-> h], [k |-> <<"i", "n", "v", "e", "r", "t">>, v |-> i],
                [k |-> <<"t", "a", "r", "g", "e", "t">>, v |-> BoolV(FALSE)],
                [k |-> <<"u", "p">>, v |-> u], [k |-> <<"r", "i", "g", "h", "t">>, v |-> r]>>)) :
     h \in {Undefined, BoolV(TRUE), StrV(<<"y", "e", "s">>)},
     i \in {Undefined, BoolV(FALSE), NumV(1, <<>>)},
     u \in FewActions \cup {Undefined},
     r \in {Undefined, Action(<<"A", "x", "i", "s">>)}}

\* devices with and without a name and well-formed identifiers, alone and
\* with one section in error or in order
DeviceInputs ==
  LET plain == {[name |-> n, vid |-> v, pid |-> p] :
                  n \in {<<>>, <<" ">>, <<"A">>},
                  v \in {<<>>, <<"0", "4", "6", "d">>, <<"0", "x", "0", "4", "6", "d">>},
                  p \in {<<>>, <<"0", "x", "4", "0", "8", "2">>, <<"0", "x", "0", "0", "0", "1">>, <<"0", "x", "4", "0", "8", "2", "2">>}}
      good == [name |-> <<"A">>, vid |-> <<"0", "x", "0", "4", "6", "d">>, pid |-> <<"0", "x", "4", "0", "8", "2">>]
  IN plain
     \cup {With(d, "dpi", s) :
             d \in {good},
             s \in {Obj1(<<"s", "e", "n", "s", "o", "r", "s">>, ArrV(<<>>)),
                    Obj1(<<"s", "e", "n", "s", "o", "r", "s">>, ArrV(<<SensorOf(NumV(825, <<>>), Undefined)>>)),
                    Obj1(<<"s", "e", "n", "s", "o", "r", "s">>, ArrV(<<SensorOf(NumV(800, <<>>), BoolV(TRUE)),
                                            SensorOf(NumV(1600, <<>>), BoolV(TRUE))>>))}}
     \cup {With(d, "buttons", ArrV(<<b>>)) :
             d \in {good}, b \in {Button(<<"0", "x", "c", "3">>, KeyAction), Button(<<"c", "3">>, Action(<<"K", "e", "y", "p", "r", "e", "s", "s">>))}}
     \cup {With(d, "gestures", ArrV(<<g>>)) :
             d \in {good}, g \in {DeviceGesture, Put(DeviceGesture, <<"m", "o", "d", "e">>, StrV(<<"L", "a", "t", "e", "r">>))}}
     \cup {With(d, "scrollWheel", s) :
             d \in {good}, s \in {Obj1(<<"h", "i", "r", "e", "s">>, StrV(<<"y", "e", "s">>)), Obj1(<<"u", "p">>, Action(<<"A", "x", "i", "s">>))}}

\* the devices of the configurations checked for duplicates: every vid with
\* every pid
ListedDevices ==
  {[name |-> <<"A">>, vid |-> v, pid |-> p] :
     v \in {<<"0", "x", "0", "4", "6", "d">>, <<"0", "x", "0", "4", "6", "d", ":">>}, p \in {<<"0", "x", "4", "0", "8", "2">>, <<":", "0", "x", "4", "0", "8", "2">>, <<"0", "x", "c", "0", "8", "b">>}}

ConfigInputs ==
  {[devices |-> d, metadata |-> GenMetadata] : d \in SeqsUpTo(ListedDevices, MaxDevices)}
  \cup TypedConfigs
  \cup {[devices |-> <<>>, metadata |-> GenMetadata], [devices |-> <<>>],
        [metadata |-> GenMetadata]}

\* the calls checked: a validator and its argument
ValidatorInputs ==
  {[validator |-> "validateDPISensor", input |-> x] : x \in SensorInputs}
  \cup {[validator |-> "validateDPISettings", input |-> x] : x \in DpiInputs}
  \cup {[validator |-> "validateButtonAction", input |-> x] : x \in ActionInputs}
  \cup {[validator |-> "validateButtonMapping", input |-> x] : x \in ButtonInputs}
  \cup {[validator |-> "validateGestureMapping", input |-> x] : x \in GestureInputs}
  \cup {[validator |-> "validateScrollWheelSettings", input |-> x] : x \in ScrollInputs}
  \cup {[validator |-> "validateDevice", input |-> x] : x \in DeviceInputs}
  \cup {[validator |-> "validateConfiguration", input |-> x] : x \in ConfigInputs}

ValidatorInit ==
  /\ IdlePipeline
  /\ \E call \in ValidatorInputs :
       checked = [validator |-> call.validator, input |-> call.input, done |-> FALSE,
                  result |-> Undefined]
  /\ app = Undefined
  /\ manager = Undefined
  /\ calls = Undefined

\* the call of one validator returns
Returns(result) ==
  /\ ~checked.done
  /\ checked' = [checked EXCEPT !.done = TRUE, !.result = result]
  /\ UNCHANGED <<pipeline, app, manager, calls>>

basePath == <<Lit("base")>>

ValidateDPISensor ==
  /\ checked.validator = "validateDPISensor"
  /\ Returns(validateDPISensor(checked.input, basePath))

ValidateDPISettings ==
  /\ checked.validator = "validateDPISettings"
  /\ Returns(validateDPISettings(checked.input, basePath))

ValidateButtonAction ==
  /\ checked.validator = "validateButtonAction"
  /\ Returns(validateButtonAction(checked.input, basePath))

ValidateButtonMapping ==
  /\ checked.validator = "validateButtonMapping"
  /\ Returns(validateButtonMapping(checked.input, basePath))

ValidateGestureMapping ==
  /\ checked.validator = "validateGestureMapping"
  /\ Returns(validateGestureMapping(checked.input, basePath))

ValidateScrollWheelSettings ==
  /\ checked.validator = "validateScrollWheelSettings"
  /\ Returns(validateScrollWheelSettings(checked.input, basePath))

ValidateDevice ==
  /\ checked.validator = "validateDevice"
  /\ Returns(validateDevice(checked.input, basePath))

ValidateConfiguration ==
  /\ checked.validator = "validateConfiguration"
  /\ Returns(validateConfiguration(checked.input))

ValidatorNext ==
  \/ ValidateDPISensor
  \/ ValidateDPISettings
  \/ ValidateButtonAction
  \/ ValidateButtonMapping
  \/ ValidateGestureMapping
  \/ ValidateScrollWheelSettings
  \/ ValidateDevice
  \/ ValidateConfiguration

ValidatorSpec == ValidatorInit /\ [][ValidatorNext]_vars

----------------------------------------------------------------------------
(* Properties *)

\* the step-wise tokenizer and the function agree
TokenizeAgrees == pc = "tokenized" => tokens = tokenize(content)

\* A message mentions a fragment when one of its literal pieces is the
\* fragment. None of the literals of the source has one of the fragments
\* below inside it, and the interpolated pieces (identifiers, operators,
\* delimiters, line numbers) hold no space.
Mentions(message, fragment) ==
  \E i \in 1..Len(message) :
    "lit" \in DOMAIN message[i] /\ message[i].lit = fragment

ParseDone == pc \in {"parsed", "checked", "validated"}

Raised == ParseDone /\ ~parsed.ok

\* validateDevice: device.name is required, non-empty after trim
ValidName(name) == name # <<>> /\ trim(name) # <<>>

\* C1: for every configuration holding one device with a valid name, a
\* 4-hex-digit vid and a 4-hex-digit pid, parse(generate(config)) succeeds
\* and its first device has that name and the lower-cased vid and pid.
C1_GenerateParsePreservesIdentity ==
  (/\ ParseDone
   /\ origin.kind = "generated"
   /\ Len(origin.config.devices) = 1
   /\ ValidName(origin.config.devices[1].name))
  => /\ parsed.ok
     /\ Len(parsed.config.devices) >= 1
     /\ parsed.config.devices[1].name = origin.config.devices[1].name
     /\ parsed.config.devices[1].vid = toLowerCase(origin.config.devices[1].vid)
     /\ parsed.config.devices[1].pid = toLowerCase(origin.config.devices[1].pid)

\* the characters generateDeviceConfig would have to escape inside "..."
NeedsEscape(name) == \E i \in 1..Len(name) : name[i] \in {"\"", "\\", "\n"}

\* The round trip of C1 for the names that hold no quote, backslash or line feed.
GenerateParsePreservesPlainNames ==
  (/\ ParseDone
   /\ origin.kind = "generated"
   /\ Len(origin.config.devices) = 1
   /\ ValidName(origin.config.devices[1].name)
   /\ ~NeedsEscape(origin.config.devices[1].name))
  => /\ parsed.ok
     /\ Len(parsed.config.devices) = 1
     /\ parsed.config.devices[1].name = origin.config.devices[1].name
     /\ parsed.config.devices[1].vid = toLowerCase(origin.config.devices[1].vid)
     /\ parsed.config.devices[1].pid = toLowerCase(origin.config.devices[1].pid)

\* every block of a hand-written text names its device
AllNamed(o) ==
  \A i \in 1..Len(o.occurrences) :
    \E j \in 1..Len(o.occurrences[i].fields) : o.occurrences[i].fields[j] = "name"

HasField(occ, f) == \E j \in 1..Len(occ.fields) : occ.fields[j] = f

\* C2: when the top-level key devices occurs more than once (each an object
\* or an array of objects), parse returns the devices of every occurrence
\* in one list in textual order; a later one never overwrites an earlier.
C2_DevicesOccurrencesAccumulate ==
  (/\ ParseDone
   /\ origin.kind = "written"
   /\ origin.tail = "none"
   /\ Len(origin.occurrences) > 1
   /\ AllNamed(origin))
  => /\ parsed.ok
     /\ Len(parsed.config.devices) = Len(origin.occurrences)
     /\ \A i \in 1..Len(origin.occurrences) :
          parsed.config.devices[i].name = BlockNames[i]

\* C3: parse of a device block that has name and vid but no pid raises a
\* ConfigParseError whose message contains "missing required properties".
C3_MissingPidRaises ==
  (/\ ParseDone
   /\ origin.kind = "written"
   /\ origin.tail = "none"
   /\ Len(origin.occurrences) = 1
   /\ origin.occurrences[1].fields = <<"name", "vid">>)
  => /\ ~parsed.ok
     /\ parsed.err.name = "ConfigParseError"
     /\ Mentions(parsed.err.message, "missing required properties")

\* the occurrence of devices whose value the generic tree keeps
LastOccurrence(o) == o.occurrences[Len(o.occurrences)]

\* a text whose devices list, as the mapper reads it, holds a block that
\* supplies name and omits vid, pid or both
OmitsIds ==
  /\ origin.kind = "written"
  /\ origin.tail = "none"
  /\ LastOccurrence(origin).form = "array"
  /\ HasField(LastOccurrence(origin), "name")
  /\ ~HasField(LastOccurrence(origin), "vid") \/ ~HasField(LastOccurrence(origin), "pid")

ErrorAt(result, path) ==
  \E i \in 1..Len(result.errors) :
    result.errors[i].path = path /\ result.errors[i].severity = "error"

Count(toks, from, to, c) ==
  Cardinality({j \in from..to : IsDelimiter(toks[j], c)})

\* some { among the tokens has no matching } after it
UnclosedObject(toks) ==
  \E i \in 1..Len(toks) :
    /\ IsDelimiter(toks[i], "{")
    /\ \A j \in (i + 1)..Len(toks) :
         Count(toks, i + 1, j, "}") <= Count(toks, i + 1, j, "{")

\* C5: parse of a text in which an object is opened with { and the end of
\* input is reached before its closing } raises a ConfigParseError whose
\* message contains "Unclosed section".
C5_UnclosedSectionRaises ==
  (ParseDone /\ UnclosedObject(tokens))
  => /\ ~parsed.ok
     /\ parsed.err.name = "ConfigParseError"
     /\ Mentions(parsed.err.message, "Unclosed section")

\* an operator that no identifier precedes
EmptyIdentifier(toks) ==
  \E i \in 1..Len(toks) :
    /\ toks[i].type = "operator"
    /\ (i = 1 \/ toks[i - 1].type # "identifier")

\* C6: parse of a text containing a member with an empty identifier raises
\* a ConfigParseError whose message contains "Section name cannot be empty"
\* and whose line field is defined.
C6_EmptySectionNameRaises ==
  (ParseDone /\ EmptyIdentifier(tokens))
  => /\ ~parsed.ok
     /\ parsed.err.name = "ConfigParseError"
     /\ Mentions(parsed.err.message, "Section name cannot be empty")
     /\ parsed.err.line # Undefined

\* every line is blank or holds a comment after blanks
OnlyCommentsAndWhitespace(text) ==
  \A k \in 1..Len(split(text)) :
    LET rest == TrimLeft(split(text)[k]) IN
    \/ rest = <<>>
    \/ rest[1] = "#"
    \/ (Len(rest) >= 2 /\ rest[1] = "/" /\ rest[2] = "/")

\* C7: parse of an empty text, or of a text holding only comments and
\* whitespace, succeeds and returns a Configuration with zero devices and
\* metadata.version "1.0.0".
C7_EmptyTextParses ==
  (ParseDone /\ OnlyCommentsAndWhitespace(content))
  => /\ parsed.ok
     /\ Len(parsed.config.devices) = 0
     /\ parsed.config.metadata.version = "1.0.0"

\* C8: every failure of parse surfaces as a ConfigParseError (message,
\* optional line and column), whichever stage raised it, and a call that
\* raises returns no Configuration.
C8_OnlyConfigParseErrorEscapes ==
  Raised
  => /\ parsed.err.name = "ConfigParseError"
     /\ DOMAIN parsed.err = {"name", "message", "line", "column"}
     /\ "config" \notin DOMAIN parsed

\* a failure raised by the domain mapper, after the generic parser returned
C8_Witness ==
  /\ Raised
  /\ parseTokens(tokens).ok
  /\ parsed.err.name = "ConfigParseError"

\* C9: validateConfigSyntax never throws: it returns isValid = true with no
\* errors exactly when parse(text) succeeds, and isValid = false with
\* exactly one error message when parse raises.
C9_CheckSyntaxMirrorsParse ==
  pc \in {"checked", "validated"}
  => /\ DOMAIN syntax = {"isValid", "errors"}
     /\ syntax.isValid <=> parsed.ok
     /\ parsed.ok => syntax.errors = <<>>
     /\ ~parsed.ok => Len(syntax.errors) = 1

C9_Witness ==
  /\ pc = "checked"
  /\ ~parsed.ok
  /\ ~syntax.isValid
  /\ Len(syntax.errors) = 1

\* C10: the tokenizer is total: no pass of its scanning loop raises, every
\* pass either ends the line or advances the column by at least one within
\* the line, and a character that starts no token is dropped without
\* producing a token.
C10_TokenizerTotal ==
  [][pc = "tokenize"
     => /\ pc' \in {"tokenize", "tokenized"}
        /\ \/ pc' = "tokenized" /\ lineNum >= Len(lines)
           \/ lineNum < Len(lines) /\ lineNum' = lineNum + 1 /\ column' = 0
           \/ lineNum' = lineNum /\ column' > column /\ column' <= Len(CurLine)
        /\ Scanning("unknown") => tokens' = tokens /\ column' = column + 1]_vars

\* a text with a character that starts no token, tokenized to the end
C10_Witness ==
  /\ pc = "tokenized"
  /\ Len(tokens) > 0
  /\ \E i \in 1..Len(content) : content[i] = "@"
  /\ \A k \in 1..Len(tokens) : \A j \in 1..Len(tokens[k].value) : tokens[k].value[j] # "@"

\* the vid, pid or cid (of the one button) parse returned for the one device
ParsedId(device, where) ==
  IF where = "vid" THEN device.vid
  ELSE IF where = "pid" THEN device.pid
  ELSE IF "buttons" \in DOMAIN device /\ Len(device.buttons.e) = 1
  THEN String(Get(device.buttons.e[1], <<"c", "i", "d">>))
  ELSE <<>>

\* C11: a vid, pid or cid written as hex digits in any letter case, with or
\* without a 0x/0X prefix, is parsed to the same digits lower-cased behind a
\* leading 0x.
C11_HexIdsNormalized ==
  (pc = "mapped" /\ origin.kind = "ids")
  => /\ parsed.ok
     /\ Len(parsed.config.devices) = 1
     /\ ParsedId(parsed.config.devices[1], origin.where)
          = <<"0", "x">> \o toLowerCase(origin.hex.digits)

\* /^0x[0-9a-f]+$/
IsNormalizedHex(s) ==
  /\ Len(s) > 2
  /\ s[1] = "0"
  /\ s[2] = "x"
  /\ \A i \in 3..Len(s) : s[i] \in Digits \cup {"a", "b", "c", "d", "e", "f"}

\* C12: normalizeHexValue is idempotent and total on hex strings: for every
\* non-empty run of hex digits in any case, with or without a 0x/0X prefix,
\* normalizing the normalized value changes nothing and the normalized value
\* matches ^0x[0-9a-f]+$.
C12_NormalizeHexIdempotent ==
  pc = "normalized"
  => /\ parsed.twice = parsed.once
     /\ IsNormalizedHex(parsed.once)

\* an upper-case digit behind the prefix 0X, normalized
C12_Witness ==
  /\ pc = "normalized"
  /\ origin.hex.prefix = <<"0", "X">>
  /\ \E i \in 1..Len(origin.hex.digits) : origin.hex.digits[i] = "D"
  /\ parsed.once = <<"0", "x">> \o toLowerCase(origin.hex.digits)
  /\ parsed.twice = parsed.once

\* the action parse returned at the place the text wrote it: of the one
\* button, of the one device-level gesture, or of the scroll wheel's up
ParsedAction(device, path) ==
  IF path = "button"
  THEN IF "buttons" \in DOMAIN device /\ Len(device.buttons.e) = 1
       THEN Get(device.buttons.e[1], <<"a", "c", "t", "i", "o", "n">>) ELSE Undefined
  ELSE IF path = "gesture"
  THEN IF "gestures" \in DOMAIN device /\ Len(device.gestures.e) = 1
       THEN Get(device.gestures.e[1], <<"a", "c", "t", "i", "o", "n">>) ELSE Undefined
  ELSE IF "scrollWheel" \in DOMAIN device
  THEN Get(device.scrollWheel, <<"u", "p">>) ELSE Undefined

\* the type the aliasing rule gives a written type string
AliasedType(type) ==
  IF toLowerCase(type) = <<"k", "e", "y", "p", "r", "e", "s", "s">> THEN <<"k", "e", "y">>
  ELSE IF toLowerCase(type) = <<"g", "e", "s", "t", "u", "r", "e", "s">> THEN <<"g", "e", "s", "t", "u", "r", "e">>
  ELSE IF toLowerCase(type) = <<"c", "h", "a", "n", "g", "e", "d", "p", "i">> THEN <<"c", "h", "a", "n", "g", "e", "D", "P", "I">>
  ELSE type

\* C13: the mapper turns the type strings keypress, gestures and changedpi
\* (in any letter case) into key, gesture and changeDPI and keeps every
\* other type string character for character, on the button path and on
\* the gesture and scroll-wheel path.
C13_TypeAliasing ==
  (pc = "mapped" /\ origin.kind = "action")
  => /\ parsed.ok
     /\ Len(parsed.config.devices) = 1
     /\ Get(ParsedAction(parsed.config.devices[1], origin.path), <<"t", "y", "p", "e">>)
          = StrV(AliasedType(origin.type))

\* C14: a key action whose keys value is written as a list of N >= 1 strings,
\* between parentheses or between brackets, parses to parameters.keys equal
\* to those N strings in order; a scalar keys value parses to a list of one.
C14_KeysParsedInOrder ==
  (pc = "mapped" /\ origin.kind = "keys")
  => /\ parsed.ok
     /\ Len(parsed.config.devices) = 1
     /\ Get(Get(ParsedAction(parsed.config.devices[1], origin.path), <<"p", "a", "r", "a", "m", "e", "t", "e", "r", "s">>), <<"k", "e", "y", "s">>)
          = ArrV([i \in 1..origin.n |-> StrV(KeyNames[i])])

\* the action parse returned for the direction a scroll text wrote
ScrollAction(o) == Get(Opt(parsed.config.devices[1], "scrollWheel"), o.direction)

\* the number a written axis_multiplier stands for
WrittenMultiplier(text) == IF text = <<"1">> THEN NumV(1, <<>>) ELSE NumV(0, <<"5">>)

\* the parameters of the synthesized action carry the written axis and,
\* when one is written, the numeric axis_multiplier
CarriesAxis(action, o) ==
  /\ Get(Get(action, <<"p", "a", "r", "a", "m", "e", "t", "e", "r", "s">>), <<"a", "x", "i", "s">>) = StrV(o.axis)
  /\ Get(Get(action, <<"p", "a", "r", "a", "m", "e", "t", "e", "r", "s">>), <<"a", "x", "i", "s", "_", "m", "u", "l", "t", "i", "p", "l", "i", "e", "r">>)
       = (IF o.multiplier # <<>> THEN WrittenMultiplier(o.multiplier) ELSE Undefined)

Generated == origin.kind = "config" /\ pc # "generate"

\* the typed configuration is one device with one button
OneButton ==
  /\ origin.kind = "config"
  /\ Len(origin.config.devices) = 1
  /\ "buttons" \in DOMAIN origin.config.devices[1]
  /\ Len(origin.config.devices[1].buttons.e) = 1

TypedButton == origin.config.devices[1].buttons.e[1]

\* the first position of a line among ls, 0 when it is not there
FirstLine(ls, line) ==
  IF \E i \in 1..Len(ls) : ls[i] = line
  THEN CHOOSE i \in 1..Len(ls) : ls[i] = line /\ \A j \in 1..(i - 1) : ls[j] # line
  ELSE 0

\* the lines of the generated text between the braces of the first action
\* of a button
ButtonActionLines ==
  LET ls == split(content)
      open == FirstLine(ls, <<" ", " ", " ", " ", " ", " ", "{">>)
      close == FirstLine(ls, <<" ", " ", " ", " ", " ", " ", "}", ";">>)
  IN IF open > 0 /\ close > open THEN SubSeq(ls, open + 1, close - 1) ELSE <<>>

\* the inlined lines mode / axis / axis_multiplier of an action
InlinedAxis(action) ==
  <<<<" ", " ", " ", " ", " ", " ", " ", " ", "m", "o", "d", "e", ":", " ", "\"", "A", "x", "i", "s", "\"", ";">>,
    <<" ", " ", " ", " ", " ", " ", " ", " ", "a", "x", "i", "s", ":", " ", "\"">> \o String(Get(Get(action, <<"p", "a", "r", "a", "m", "e", "t", "e", "r", "s">>), <<"a", "x", "i", "s">>)) \o <<"\"", ";">>>>
  \o (IF Get(Get(action, <<"p", "a", "r", "a", "m", "e", "t", "e", "r", "s">>), <<"a", "x", "i", "s", "_", "m", "u", "l", "t", "i", "p", "l", "i", "e", "r">>) # Undefined
      THEN <<<<" ", " ", " ", " ", " ", " ", " ", " ", "a", "x", "i", "s", "_", "m", "u", "l", "t", "i", "p", "l", "i", "e", "r", ":", " ">> \o String(Get(Get(action, <<"p", "a", "r", "a", "m", "e", "t", "e", "r", "s">>), <<"a", "x", "i", "s", "_", "m", "u", "l", "t", "i", "p", "l", "i", "e", "r">>)) \o <<";">>>>
      ELSE <<>>)

IsTypeLine(line) == startsWith(TrimLeft(line), <<"t", "y", "p", "e", ":">>)

\* C16 as stated: every action of type Axis or cycleHiRes is written as the
\* inlined lines mode / axis / axis_multiplier with no type line.
C16_AxisFamilyInlined ==
  (Generated /\ OneButton
     /\ Get(Get(TypedButton, <<"a", "c", "t", "i", "o", "n">>), <<"t", "y", "p", "e">>) \in {StrV(<<"A", "x", "i", "s">>), StrV(<<"c", "y", "c", "l", "e", "H", "i", "R", "e", "s">>)})
  => /\ \A i \in 1..Len(ButtonActionLines) : ~IsTypeLine(ButtonActionLines[i])
     /\ ButtonActionLines = InlinedAxis(Get(TypedButton, <<"a", "c", "t", "i", "o", "n">>))

\* C16 amended: every action of type Axis or cycleHiRes whose parameters
\* carry an axis is written as the inlined lines mode / axis /
\* axis_multiplier (the last when the parameter is defined) with no type line.
C16_AxisFamilyInlinedWhenAxisGiven ==
  (Generated /\ OneButton
     /\ Get(Get(TypedButton, <<"a", "c", "t", "i", "o", "n">>), <<"t", "y", "p", "e">>) \in {StrV(<<"A", "x", "i", "s">>), StrV(<<"c", "y", "c", "l", "e", "H", "i", "R", "e", "s">>)}
     /\ Truthy(Get(Get(Get(TypedButton, <<"a", "c", "t", "i", "o", "n">>), <<"p", "a", "r", "a", "m", "e", "t", "e", "r", "s">>), <<"a", "x", "i", "s">>)))
  => /\ \A i \in 1..Len(ButtonActionLines) : ~IsTypeLine(ButtonActionLines[i])
     /\ ButtonActionLines = InlinedAxis(Get(TypedButton, <<"a", "c", "t", "i", "o", "n">>))

\* a cycleHiRes action with an axis and an axis_multiplier, generated
C16_Witness ==
  /\ Generated
  /\ OneButton
  /\ Get(Get(TypedButton, <<"a", "c", "t", "i", "o", "n">>), <<"t", "y", "p", "e">>) = StrV(<<"c", "y", "c", "l", "e", "H", "i", "R", "e", "s">>)
  /\ Get(Get(Get(TypedButton, <<"a", "c", "t", "i", "o", "n">>), <<"p", "a", "r", "a", "m", "e", "t", "e", "r", "s">>), <<"a", "x", "i", "s", "_", "m", "u", "l", "t", "i", "p", "l", "i", "e", "r">>) = NumV(2, <<>>)
  /\ ButtonActionLines = <<<<" ", " ", " ", " ", " ", " ", " ", " ", "m", "o", "d", "e", ":", " ", "\"", "A", "x", "i", "s", "\"", ";">>, <<" ", " ", " ", " ", " ", " ", " ", " ", "a", "x", "i", "s", ":", " ", "\"", "R", "E", "L", "_", "W", "H", "E", "E", "L", "\"", ";">>, <<" ", " ", " ", " ", " ", " ", " ", " ", "a", "x", "i", "s", "_", "m", "u", "l", "t", "i", "p", "l", "i", "e", "r", ":", " ", "2", ";">>>>

\* the type line of an action of a button
TypeLine(type) == <<" ", " ", " ", " ", " ", " ", " ", " ", "t", "y", "p", "e", ":", " ", "\"">> \o type \o <<"\"", ";">>

\* some line of the generated text is the given one behind its indent
Contains(line) ==
  LET ls == split(content) IN
  \E i \in 1..Len(ls) : TrimLeft(ls[i]) = line

\* the scenario: a button with cid 0xc3 and a key action is written with its
\* cid, the type Keypress and the comment of the thumb button
ThumbButtonScenario ==
  (Get(TypedButton, <<"c", "i", "d">>) = StrV(<<"0", "x", "c", "3">>) /\ Get(Get(TypedButton, <<"a", "c", "t", "i", "o", "n">>), <<"t", "y", "p", "e">>) = StrV(<<"k", "e", "y">>))
  => /\ Contains(<<"c", "i", "d", ":", " ", "0", "x", "c", "3", ";">>)
     /\ Contains(<<"t", "y", "p", "e", ":", " ", "\"", "K", "e", "y", "p", "r", "e", "s", "s", "\"", ";">>)
     /\ Contains(<<"#", " ", "T", "h", "u", "m", "b", " ", "b", "u", "t", "t", "o", "n">>)

\* the re-spelling as stated: exactly key, gesture and changeDPI are re-spelled
RespelledExactly(type) ==
  IF type = <<"k", "e", "y">> THEN <<"K", "e", "y", "p", "r", "e", "s", "s">>
  ELSE IF type = <<"g", "e", "s", "t", "u", "r", "e">> THEN <<"G", "e", "s", "t", "u", "r", "e", "s">>
  ELSE IF type = <<"c", "h", "a", "n", "g", "e", "D", "P", "I">> THEN <<"C", "h", "a", "n", "g", "e", "D", "P", "I">>
  ELSE type

\* the re-spelling in any letter case, of the axis family as well
RespelledAnyCase(type) ==
  IF toLowerCase(type) \in {<<"k", "e", "y">>, <<"k", "e", "y", "p", "r", "e", "s", "s">>} THEN <<"K", "e", "y", "p", "r", "e", "s", "s">>
  ELSE IF toLowerCase(type) \in {<<"g", "e", "s", "t", "u", "r", "e">>, <<"g", "e", "s", "t", "u", "r", "e", "s">>} THEN <<"G", "e", "s", "t", "u", "r", "e", "s">>
  ELSE IF toLowerCase(type) = <<"c", "h", "a", "n", "g", "e", "d", "p", "i">> THEN <<"C", "h", "a", "n", "g", "e", "D", "P", "I">>
  ELSE IF toLowerCase(type) = <<"a", "x", "i", "s">> THEN <<"A", "x", "i", "s">>
  ELSE IF toLowerCase(type) = <<"c", "y", "c", "l", "e", "h", "i", "r", "e", "s">> THEN <<"c", "y", "c", "l", "e", "H", "i", "R", "e", "s">>
  ELSE type

\* C17 as stated: the type of an action is written as Keypress for key,
\* Gestures for gesture, ChangeDPI for changeDPI and unchanged otherwise; a
\* button with cid 0xc3 and a key action is written with cid: 0xc3;,
\* type: "Keypress"; and a comment holding Thumb button.
C17_TypesRespelledExactly ==
  (Generated /\ OneButton)
  => /\ ButtonActionLines # <<>>
     /\ Head(ButtonActionLines) = TypeLine(RespelledExactly(Get(Get(TypedButton, <<"a", "c", "t", "i", "o", "n">>), <<"t", "y", "p", "e">>).s))
     /\ ThumbButtonScenario

\* C17 amended: the type of an action, compared in any letter case, is
\* written as Keypress for key and keypress, Gestures for gesture and
\* gestures, ChangeDPI for changedpi, Axis for axis, cycleHiRes for
\* cyclehires, and unchanged otherwise; an action of the axis family whose
\* parameters carry an axis has no type line; a button with cid 0xc3 and a
\* key action is written with cid: 0xc3;, type: "Keypress"; and a comment
\* holding Thumb button.
C17_TypesRespelledAnyCase ==
  (Generated /\ OneButton)
  => LET action == Get(TypedButton, <<"a", "c", "t", "i", "o", "n">>)
         type == RespelledAnyCase(Get(action, <<"t", "y", "p", "e">>).s)
     IN /\ ButtonActionLines # <<>>
        /\ IF type \in {<<"A", "x", "i", "s">>, <<"c", "y", "c", "l", "e", "H", "i", "R", "e", "s">>} /\ Truthy(Get(Get(action, <<"p", "a", "r", "a", "m", "e", "t", "e", "r", "s">>), <<"a", "x", "i", "s">>))
           THEN \A i \in 1..Len(ButtonActionLines) : ~IsTypeLine(ButtonActionLines[i])
           ELSE Head(ButtonActionLines) = TypeLine(type)
        /\ ThumbButtonScenario

\* the button with cid 0xc3 and a key action, generated
C17_Witness ==
  /\ Generated
  /\ OneButton
  /\ Get(TypedButton, <<"c", "i", "d">>) = StrV(<<"0", "x", "c", "3">>)
  /\ Get(Get(TypedButton, <<"a", "c", "t", "i", "o", "n">>), <<"t", "y", "p", "e">>) = StrV(<<"k", "e", "y">>)
  /\ Head(ButtonActionLines) = <<" ", " ", " ", " ", " ", " ", " ", " ", "t", "y", "p", "e", ":", " ", "\"", "K", "e", "y", "p", "r", "e", "s", "s", "\"", ";">>
  /\ Contains(<<"#", " ", "T", "h", "u", "m", "b", " ", "b", "u", "t", "t", "o", "n">>)

\* C18: no action or gesture parameter is lost on output: a button whose
\* action is changeDPI with sensor n is written with the line sensor: n;,
\* and a device-level gesture with threshold t and interval i with the lines
\* threshold: t; and interval: i;.
C18_ParametersEmitted ==
  Generated
  => /\ (OneButton /\ Get(Get(TypedButton, <<"a", "c", "t", "i", "o", "n">>), <<"t", "y", "p", "e">>) = StrV(<<"c", "h", "a", "n", "g", "e", "D", "P", "I">>))
        => Contains(<<"s", "e", "n", "s", "o", "r", ":", " ">> \o String(Get(Get(Get(TypedButton, <<"a", "c", "t", "i", "o", "n">>), <<"p", "a", "r", "a", "m", "e", "t", "e", "r", "s">>), <<"s", "e", "n", "s", "o", "r">>)) \o <<";">>)
     /\ \A d \in 1..Len(origin.config.devices) :
          "gestures" \in DOMAIN origin.config.devices[d]
          => \A g \in 1..Len(origin.config.devices[d].gestures.e) :
               LET gesture == origin.config.devices[d].gestures.e[g] IN
               /\ Get(gesture, <<"t", "h", "r", "e", "s", "h", "o", "l", "d">>) # Undefined
                  => Contains(<<"t", "h", "r", "e", "s", "h", "o", "l", "d", ":", " ">> \o String(Get(gesture, <<"t", "h", "r", "e", "s", "h", "o", "l", "d">>)) \o <<";">>)
               /\ Get(gesture, <<"i", "n", "t", "e", "r", "v", "a", "l">>) # Undefined
                  => Contains(<<"i", "n", "t", "e", "r", "v", "a", "l", ":", " ">> \o String(Get(gesture, <<"i", "n", "t", "e", "r", "v", "a", "l">>)) \o <<";">>)

\* some line of the generated text opens the named section of a device:
\* the name stands right behind the indent of the device's properties
DeviceSection(name) ==
  \E i \in 1..Len(content) :
    /\ content[i] = "\n"
    /\ startsWith(SubSeq(content, i + 1, Len(content)), <<" ", " ">> \o name)

\* the device has no button, no gesture, no DPI sensor
NoButtons(device) == "buttons" \notin DOMAIN device \/ Len(device.buttons.e) = 0

NoGestures(device) == "gestures" \notin DOMAIN device \/ Len(device.gestures.e) = 0

NoSensors(device) == "dpi" \notin DOMAIN device \/ Len(Get(device.dpi, <<"s", "e", "n", "s", "o", "r", "s">>).e) = 0

\* C19: for devices whose buttons list, gestures list or DPI sensors list is
\* empty or absent, the generated text has no buttons, gestures or dpi
\* section: an empty section is never written.
C19_EmptyCollectionsOmitted ==
  Generated
  => /\ (\A d \in 1..Len(origin.config.devices) : NoButtons(origin.config.devices[d]))
        => ~DeviceSection(<<"b", "u", "t", "t", "o", "n", "s">>)
     /\ (\A d \in 1..Len(origin.config.devices) : NoGestures(origin.config.devices[d]))
        => ~DeviceSection(<<"g", "e", "s", "t", "u", "r", "e", "s">>)
     /\ (\A d \in 1..Len(origin.config.devices) : NoSensors(origin.config.devices[d]))
        => ~DeviceSection(<<"d", "p", "i">>)

\* a device with an empty buttons list, an empty gestures list and an empty
\* sensors list, generated with none of the three sections
C19_Witness ==
  /\ Generated
  /\ Len(origin.config.devices) = 1
  /\ DOMAIN origin.config.devices[1] = {"name", "vid", "pid", "buttons", "gestures", "dpi"}
  /\ Len(origin.config.devices[1].buttons.e) = 0
  /\ Len(origin.config.devices[1].gestures.e) = 0
  /\ Len(Get(origin.config.devices[1].dpi, <<"s", "e", "n", "s", "o", "r", "s">>).e) = 0
  /\ ~DeviceSection(<<"b", "u", "t", "t", "o", "n", "s">>)
  /\ ~DeviceSection(<<"g", "e", "s", "t", "u", "r", "e", "s">>)
  /\ ~DeviceSection(<<"d", "p", "i">>)
  /\ DeviceSection(<<"p", "i", "d", ":", " ", "0", "x", "4", "0", "8", "2", ";">>)

\* the number of elements of a list property of a parsed device, 0 when
\* the device has no such property
CountOf(device, key) ==
  IF key \in DOMAIN device
  THEN IF key = "dpi"
       THEN LengthOf(Get(device.dpi, <<"s", "e", "n", "s", "o", "r", "s">>))
       ELSE LengthOf(device[key])
  ELSE 0

\* what the round trip is to reproduce of a device
Summary(device) ==
  [name |-> device.name, vid |-> device.vid, pid |-> device.pid,
   sensors |-> CountOf(device, "dpi"),
   buttons |-> CountOf(device, "buttons"),
   gestures |-> CountOf(device, "gestures")]

\* C20: for a text the generator wrote, c = parse(text) and
\* c' = parse(generate(c)) have the same number of devices and, device by
\* device, the same name, vid, pid, number of DPI sensors, number of buttons
\* and number of gestures.
C20_RoundTripPreservesSummary ==
  (pc = "reparsed" /\ origin.kind = "config")
  => /\ reparsed.ok
     /\ Len(reparsed.config.devices) = Len(parsed.config.devices)
     /\ \A d \in 1..Len(parsed.config.devices) :
          Summary(reparsed.config.devices[d]) = Summary(parsed.config.devices[d])

\* the same round trip for texts written from names that hold no quote,
\* backslash or line feed
RoundTripPreservesPlainNames ==
  (pc = "reparsed" /\ origin.kind = "config"
     /\ \A d \in 1..Len(origin.config.devices) : ~NeedsEscape(origin.config.devices[d].name))
  => /\ reparsed.ok
     /\ Len(reparsed.config.devices) = Len(parsed.config.devices)
     /\ \A d \in 1..Len(parsed.config.devices) :
          Summary(reparsed.config.devices[d]) = Summary(parsed.config.devices[d])

----------------------------------------------------------------------------
(* AppStateContext: the state container *)

\* defaultPreferences
defaultPreferences ==
  [autoSave |-> FALSE, autoSaveInterval |-> 5, theme |-> "system", recentFilesLimit |-> 10,
   showTooltips |-> TRUE, validateOnType |-> TRUE]

\* initialState
initialState ==
  [currentConfiguration |-> Null,
   selectedDevice |-> Null,
   activePanel |-> "welcome",
   isModified |-> FALSE,
   statusMessage |-> "Ready",
   currentFile |-> Null,
   recentFiles |-> <<>>,
   validationErrors |-> <<>>,
   validationWarnings |-> <<>>,
   preferences |-> defaultPreferences,
   history |-> [past |-> <<>>, present |-> Null, future |-> <<>>]]

\* { ...object, ...updates }
Merge(object, updates) == updates @@ object

\* list.slice(0, end) for an integer end
Slice(list, end) ==
  LET stop == IF end < 0 THEN (IF Len(list) + end < 0 THEN 0 ELSE Len(list) + end)
              ELSE IF end > Len(list) THEN Len(list) ELSE end
  IN SubSeq(list, 1, stop)

\* the elements of a list
Range(list) == {list[i] : i \in DOMAIN list}

\* list.filter(keep), keep being the set of the elements kept
RECURSIVE Filter(_, _)
Filter(list, keep) ==
  IF list = <<>> THEN <<>>
  ELSE (IF Head(list) \in keep THEN <<Head(list)>> ELSE <<>>) \o Filter(Tail(list), keep)

SameIds(d, ids) == d.vid = ids.vid /\ d.pid = ids.pid

\* state.history.present ? [...past, present] : otherwise
PushPresent(history, otherwise) ==
  IF history.present # Null THEN Append(history.past, history.present) ELSE otherwise

\* UPDATE_DEVICE (metadata.created and metadata.modified, the time of the
\* dispatch, are left out)
UpdateDevice(state, device) ==
  IF state.currentConfiguration = Null
  THEN LET newConfig == [devices |-> <<device>>, metadata |-> [version |-> "1.0"]]
       IN [state EXCEPT !.currentConfiguration = newConfig,
                        !.selectedDevice = device,
                        !.history = [past |-> <<>>, present |-> newConfig, future |-> <<>>],
                        !.isModified = TRUE]
  ELSE LET devices == state.currentConfiguration.devices
           found == {i \in 1..Len(devices) : SameIds(devices[i], device)}
           existingDeviceIndex == IF found = {} THEN -1
                                  ELSE CHOOSE i \in found : \A j \in found : i <= j
           updatedDevices == IF existingDeviceIndex >= 0
                             THEN [devices EXCEPT ![existingDeviceIndex] = device]
                             ELSE Append(devices, device)
           updatedConfig == [state.currentConfiguration EXCEPT !.devices = updatedDevices]
       IN [state EXCEPT !.currentConfiguration = updatedConfig,
                        !.selectedDevice = device,
                        !.history = [past |-> Append(state.history.past, state.currentConfiguration),
                                     present |-> updatedConfig,
                                     future |-> <<>>],
                        !.isModified = TRUE]

\* REMOVE_DEVICE
RemoveDevice(state, ids) ==
  IF state.currentConfiguration = Null THEN state
  ELSE LET devices == state.currentConfiguration.devices
           updatedDevices == Filter(devices, {d \in Range(devices) : ~SameIds(d, ids)})
           updatedConfig == [state.currentConfiguration EXCEPT !.devices = updatedDevices]
       IN [state EXCEPT !.currentConfiguration = updatedConfig,
                        !.selectedDevice =
                          IF state.selectedDevice # Null /\ SameIds(state.selectedDevice, ids)
                          THEN Null ELSE state.selectedDevice,
                        !.history = [past |-> PushPresent(state.history, <<>>),
                                     present |-> updatedConfig,
                                     future |-> <<>>],
                        !.isModified = TRUE]

\* ADD_RECENT_FILE (lastOpened, the time of the dispatch, is left out)
AddRecentFile(state, file) ==
  LET filteredRecentFiles ==
        Filter(state.recentFiles, {f \in Range(state.recentFiles) : f.path # file.path})
  IN [state EXCEPT !.recentFiles =
        Slice(<<file>> \o filteredRecentFiles, state.preferences.recentFilesLimit)]

\* UNDO leaving history.present as it was
Undo_KeepsPresent(state) ==
  IF Len(state.history.past) = 0 THEN state
  ELSE [state EXCEPT !.currentConfiguration = state.history.past[Len(state.history.past)],
                     !.history.past = SubSeq(state.history.past, 1, Len(state.history.past) - 1),
                     !.isModified = TRUE]

\* UNDO
Undo(state) ==
  IF Len(state.history.past) = 0 THEN state
  ELSE LET previous == state.history.past[Len(state.history.past)]
           newPast == SubSeq(state.history.past, 1, Len(state.history.past) - 1)
       IN [state EXCEPT !.currentConfiguration = previous,
                        !.history = [past |-> newPast,
                                     present |-> previous,
                                     future |-> IF state.history.present # Null
                                                THEN <<state.history.present>> \o state.history.future
                                                ELSE state.history.future],
                        !.isModified = TRUE]

\* REDO
Redo(state) ==
  IF Len(state.history.future) = 0 THEN state
  ELSE LET next == state.history.future[1]
           newFuture == Tail(state.history.future)
       IN [state EXCEPT !.currentConfiguration = next,
                        !.history = [past |-> PushPresent(state.history, state.history.past),
                                     present |-> next,
                                     future |-> newFuture],
                        !.isModified = TRUE]

\* appReducer
appReducer(state, action) ==
  CASE action.type = "SET_CONFIGURATION" ->
         [state EXCEPT !.currentConfiguration = action.payload,
                       !.history = [past |-> PushPresent(state.history, <<>>),
                                    present |-> action.payload,
                                    future |-> <<>>],
                       !.isModified = TRUE]
    [] action.type = "UPDATE_DEVICE" -> UpdateDevice(state, action.payload)
    [] action.type = "REMOVE_DEVICE" -> RemoveDevice(state, action.payload)
    [] action.type = "SET_SELECTED_DEVICE" -> [state EXCEPT !.selectedDevice = action.payload]
    [] action.type = "SET_ACTIVE_PANEL" -> [state EXCEPT !.activePanel = action.payload]
    [] action.type = "SET_MODIFIED" -> [state EXCEPT !.isModified = action.payload]
    [] action.type = "SET_STATUS_MESSAGE" -> [state EXCEPT !.statusMessage = action.payload]
    [] action.type = "SET_CURRENT_FILE" ->
         [state EXCEPT !.currentFile = action.payload, !.isModified = FALSE]
    [] action.type = "ADD_RECENT_FILE" -> AddRecentFile(state, action.payload)
    [] action.type = "SET_VALIDATION_ERRORS" -> [state EXCEPT !.validationErrors = action.payload]
    [] action.type = "SET_VALIDATION_WARNINGS" ->
         [state EXCEPT !.validationWarnings = action.payload]
    [] action.type = "UPDATE_PREFERENCES" ->
         [state EXCEPT !.preferences = Merge(state.preferences, action.payload)]
    [] action.type = "UNDO" -> Undo(state)
    [] action.type = "REDO" -> Redo(state)
    [] action.type = "CLEAR_HISTORY" ->
         [state EXCEPT !.history = [past |-> <<>>, present |-> state.currentConfiguration,
                                    future |-> <<>>]]
    [] action.type = "RESET_STATE" ->
         [initialState EXCEPT !.preferences = state.preferences,
                              !.recentFiles = state.recentFiles]
    [] OTHER -> state

\* useUndoRedo
canUndo(state) == Len(state.history.past) > 0

canRedo(state) == Len(state.history.future) > 0

----------------------------------------------------------------------------
(* The actions dispatched to the reducer *)

\* most actions dispatched in one behaviour
MaxDispatches == 4

DeviceA == [name |-> <<"A">>, vid |-> <<"0", "x", "0", "4", "6", "d">>, pid |-> <<"0", "x", "4", "0", "8", "2">>]

DeviceARenamed == [name |-> <<"A", "2">>, vid |-> <<"0", "x", "0", "4", "6", "d">>, pid |-> <<"0", "x", "4", "0", "8", "2">>]

DeviceB == [name |-> <<"B">>, vid |-> <<"0", "x", "0", "4", "6", "d">>, pid |-> <<"0", "x", "c", "0", "8", "b">>]

ConfigPayloads ==
  {Null,
   [devices |-> <<DeviceA>>, metadata |-> [version |-> "1.0"]],
   [devices |-> <<DeviceB, DeviceA>>, metadata |-> [version |-> "1.0"]]}

RecentPayloads ==
  {[path |-> "/a.cfg", filename |-> "a.cfg"], [path |-> "/b.cfg", filename |-> "b.cfg"],
   [path |-> "/c.cfg", filename |-> "c.cfg"]}

PreferencePayloads == {[recentFilesLimit |-> 1], [recentFilesLimit |-> 2], [theme |-> "dark"]}

\* the configurations current before the edits that can still be undone, the
\* last edit last: what an undo history holds, kept beside the reducer's own
Undoable(undoable, state, action) ==
  IF action.type \in {"SET_CONFIGURATION", "UPDATE_DEVICE"}
     \/ (action.type = "REMOVE_DEVICE" /\ state.currentConfiguration # Null)
     \/ (action.type = "REDO" /\ canRedo(state))
  THEN Append(undoable, state.currentConfiguration)
  ELSE IF action.type = "UNDO" /\ canUndo(state)
  THEN SubSeq(undoable, 1, Len(undoable) - 1)
  ELSE IF action.type \in {"CLEAR_HISTORY", "RESET_STATE"} THEN <<>>
  ELSE undoable

ReducerInit ==
  /\ IdlePipeline
  /\ checked = Undefined
  /\ app = [state |-> initialState, last |-> [type |-> "INIT"],
            before |-> [state |-> initialState, undoable |-> <<>>],
            undoable |-> <<>>, added |-> "", dispatches |-> 0]
  /\ manager = Undefined
  /\ calls = Undefined

\* app.added is the path of the last ADD_RECENT_FILE, "" before the first

\* another action can be dispatched
Dispatching == app.dispatches < MaxDispatches

\* dispatch(action)
Dispatch(action) ==
  /\ app' = [state |-> appReducer(app.state, action),
             last |-> action,
             before |-> [state |-> app.state, undoable |-> app.undoable],
             undoable |-> Undoable(app.undoable, app.state, action),
             added |-> IF action.type = "ADD_RECENT_FILE" THEN action.payload.path ELSE app.added,
             dispatches |-> app.dispatches + 1]
  /\ UNCHANGED <<pipeline, checked, manager, calls>>

SET_CONFIGURATION ==
  /\ Dispatching
  /\ \E payload \in ConfigPayloads : Dispatch([type |-> "SET_CONFIGURATION", payload |-> payload])

UPDATE_DEVICE ==
  /\ Dispatching
  /\ \E payload \in {DeviceA, DeviceARenamed, DeviceB} :
       Dispatch([type |-> "UPDATE_DEVICE", payload |-> payload])

REMOVE_DEVICE ==
  /\ Dispatching
  /\ \E payload \in {[vid |-> <<"0", "x", "0", "4", "6", "d">>, pid |-> <<"0", "x", "4", "0", "8", "2">>], [vid |-> <<"0", "x", "0", "4", "6", "d">>, pid |-> <<"0", "x", "0", "0", "0", "0">>]} :
       Dispatch([type |-> "REMOVE_DEVICE", payload |-> payload])

SET_SELECTED_DEVICE ==
  /\ Dispatching
  /\ \E payload \in {Null, DeviceA} : Dispatch([type |-> "SET_SELECTED_DEVICE", payload |-> payload])

SET_ACTIVE_PANEL ==
  /\ Dispatching
  /\ \E payload \in {"device", "preview"} : Dispatch([type |-> "SET_ACTIVE_PANEL", payload |-> payload])

SET_MODIFIED ==
  /\ Dispatching
  /\ \E payload \in BOOLEAN : Dispatch([type |-> "SET_MODIFIED", payload |-> payload])

SET_STATUS_MESSAGE ==
  /\ Dispatching
  /\ \E payload \in {"Saved"} : Dispatch([type |-> "SET_STATUS_MESSAGE", payload |-> payload])

SET_CURRENT_FILE ==
  /\ Dispatching
  /\ \E payload \in {Null, [path |-> "/a.cfg", filename |-> "a.cfg"]} :
       Dispatch([type |-> "SET_CURRENT_FILE", payload |-> payload])

ADD_RECENT_FILE ==
  /\ Dispatching
  /\ \E payload \in RecentPayloads : Dispatch([type |-> "ADD_RECENT_FILE", payload |-> payload])

SET_VALIDATION_ERRORS ==
  /\ Dispatching
  /\ \E payload \in {<<>>, <<Diagnostic(<<Lit("devices")>>, <<Lit("Devices array is required")>>,
                                       "error", "")>>} :
       Dispatch([type |-> "SET_VALIDATION_ERRORS", payload |-> payload])

SET_VALIDATION_WARNINGS ==
  /\ Dispatching
  /\ \E payload \in {<<>>, <<Diagnostic(<<Lit("devices")>>, <<Lit("No devices configured")>>,
                                       "warning", "")>>} :
       Dispatch([type |-> "SET_VALIDATION_WARNINGS", payload |-> payload])

UPDATE_PREFERENCES ==
  /\ Dispatching
  /\ \E payload \in PreferencePayloads : Dispatch([type |-> "UPDATE_PREFERENCES", payload |-> payload])

UNDO ==
  /\ Dispatching
  /\ \E type \in {"UNDO"} : Dispatch([type |-> type])

REDO ==
  /\ Dispatching
  /\ \E type \in {"REDO"} : Dispatch([type |-> type])

CLEAR_HISTORY ==
  /\ Dispatching
  /\ \E type \in {"CLEAR_HISTORY"} : Dispatch([type |-> type])

RESET_STATE ==
  /\ Dispatching
  /\ \E type \in {"RESET_STATE"} : Dispatch([type |-> type])

ReducerNext ==
  \/ SET_CONFIGURATION
  \/ UPDATE_DEVICE
  \/ REMOVE_DEVICE
  \/ SET_SELECTED_DEVICE
  \/ SET_ACTIVE_PANEL
  \/ SET_MODIFIED
  \/ SET_STATUS_MESSAGE
  \/ SET_CURRENT_FILE
  \/ ADD_RECENT_FILE
  \/ SET_VALIDATION_ERRORS
  \/ SET_VALIDATION_WARNINGS
  \/ UPDATE_PREFERENCES
  \/ UNDO
  \/ REDO
  \/ CLEAR_HISTORY
  \/ RESET_STATE

ReducerSpec == ReducerInit /\ [][ReducerNext]_vars

----------------------------------------------------------------------------
(* Properties of the validators, under ValidatorSpec *)

\* the entries whose message carries the given literal of the source
Mentioning(entries, literal) ==
  {i \in 1..Len(entries) : \E j \in 1..Len(entries[i].message) : entries[i].message[j] = Lit(literal)}

\* validateDPISettings has returned on a non-empty list of sensors each of
\* which validateDPISensor accepts
ValidSensorsChecked ==
  /\ checked.validator = "validateDPISettings"
  /\ checked.done
  /\ IsArray(Get(checked.input, <<"s", "e", "n", "s", "o", "r", "s">>))
  /\ Len(Get(checked.input, <<"s", "e", "n", "s", "o", "r", "s">>).e) > 0
  /\ \A i \in 1..Len(Get(checked.input, <<"s", "e", "n", "s", "o", "r", "s">>).e) :
       validateDPISensor(Get(checked.input, <<"s", "e", "n", "s", "o", "r", "s">>).e[i], <<>>).isValid

\* the sensors of the input marked default
MarkedDefault ==
  LET sensors == Get(checked.input, <<"s", "e", "n", "s", "o", "r", "s">>).e
  IN {i \in 1..Len(sensors) : Truthy(Get(sensors[i], <<"d", "e", "f", "a", "u", "l", "t">>))}

\* C21: on a non-empty list of individually valid sensors, one default sensor
\* gives no error and no warning about the default; no default sensor gives no
\* error and exactly one warning "No default DPI sensor specified"; two or
\* more give exactly one error, "Only one DPI sensor can be marked as default".
C21_DefaultSensorRule ==
  ValidSensorsChecked =>
    LET n == Cardinality(MarkedDefault)
        noDefault == Mentioning(checked.result.warnings, "No default DPI sensor specified")
        onlyOne == Mentioning(checked.result.errors, "Only one DPI sensor can be marked as default")
    IN /\ n = 1 => Len(checked.result.errors) = 0 /\ noDefault = {}
       /\ n = 0 => Len(checked.result.errors) = 0 /\ Cardinality(noDefault) = 1
       /\ n >= 2 => Len(checked.result.errors) = 1 /\ Cardinality(onlyOne) = 1

\* three valid sensors, two of them default, have been validated
C21_Witness ==
  /\ ValidSensorsChecked
  /\ Len(Get(checked.input, <<"s", "e", "n", "s", "o", "r", "s">>).e) = 3
  /\ Cardinality(MarkedDefault) = 2
  /\ ~checked.result.isValid


\* validateConfiguration has returned on a configuration with a devices array
ConfigurationChecked ==
  /\ checked.validator = "validateConfiguration"
  /\ checked.done
  /\ "devices" \in DOMAIN checked.input

\* two devices at different positions share vid and pid
SharedIds ==
  \E i, j \in 1..Len(checked.input.devices) :
    /\ i # j
    /\ checked.input.devices[i].vid = checked.input.devices[j].vid
    /\ checked.input.devices[i].pid = checked.input.devices[j].pid

DuplicatesReported == Mentioning(checked.result.errors, "Duplicate devices found: ") # {}

\* C22: validateConfiguration returns isValid = false with a "Duplicate
\* devices" error when two devices at any two positions share (vid, pid), and
\* reports no such error when all (vid, pid) pairs are distinct.
C22_DuplicateDevicesReported ==
  ConfigurationChecked =>
    /\ SharedIds => ~checked.result.isValid /\ DuplicatesReported
    /\ ~SharedIds => ~DuplicatesReported

\* the half of C22 the code keeps: a shared pair is always reported
SharedIdsReported ==
  ConfigurationChecked /\ SharedIds => ~checked.result.isValid /\ DuplicatesReported

\* the other half on identifiers without a colon
DistinctPlainIdsPass ==
  ConfigurationChecked /\ ~SharedIds
    /\ (\A i \in 1..Len(checked.input.devices) :
          \A j \in 1..Len(checked.input.devices[i].vid) : checked.input.devices[i].vid[j] # ":")
    => ~DuplicatesReported


\* C23: the result of every validator on every input has isValid true exactly
\* when errors is empty, whatever the warnings; every entry of errors has
\* severity error and every entry of warnings has severity warning.
C23_ValidIffNoErrors ==
  checked.done =>
    /\ checked.result.isValid = (Len(checked.result.errors) = 0)
    /\ \A i \in 1..Len(checked.result.errors) : checked.result.errors[i].severity = "error"
    /\ \A i \in 1..Len(checked.result.warnings) : checked.result.warnings[i].severity = "warning"

\* a device validated with a warning from one of its sections and no error
C23_Witness ==
  /\ checked.validator = "validateDevice"
  /\ checked.done
  /\ checked.result.isValid
  /\ Mentioning(checked.result.warnings, "DPI values are typically multiples of 50") # {}

----------------------------------------------------------------------------
(* Properties of the pipeline, continued *)

\* a text with several synonym sections has been parsed
SynonymsParsed ==
  /\ origin.kind = "synonyms"
  /\ pc = "mapped"
  /\ parsed.ok

\* the position in the text of the synonym the mapper tries first
FirstTried(sections) ==
  CHOOSE i \in DOMAIN sections : \A j \in DOMAIN sections : sections[i] <= sections[j]

\* C24 as stated: the settings of all the synonym sections of a device are
\* merged into scrollWheel, none is discarded because another synonym is present.
C24_SynonymsMerged ==
  SynonymsParsed =>
    \A i \in DOMAIN origin.sections :
      Get(Opt(parsed.config.devices[1], "scrollWheel"), SynonymSettings[i]) = BoolV(TRUE)

\* C24, amended: scrollWheel is read from one synonym section alone, the first
\* present of hiresscroll, scrollwheel, scroll_wheel; the settings written
\* under the other synonyms are discarded.
C24_FirstSynonymAlone ==
  SynonymsParsed =>
    Opt(parsed.config.devices[1], "scrollWheel")
      = Obj1(SynonymSettings[FirstTried(origin.sections)], BoolV(TRUE))

\* scroll_wheel, scrollwheel and hiresscroll written in this order: the last
\* section is the one read
C24_Witness ==
  /\ SynonymsParsed
  /\ origin.sections = <<3, 2, 1>>
  /\ Get(parsed.config.devices[1].scrollWheel, <<"t", "a", "r", "g", "e", "t">>) = BoolV(TRUE)
  /\ Get(parsed.config.devices[1].scrollWheel, <<"h", "i", "r", "e", "s">>) = Undefined


\* a typed configuration and its reloaded form have been validated
Revalidated == pc = "revalidated"

\* C29: a configuration for which validateConfiguration reports no errors
\* still has none after generateConfigFile and parseConfigFile.
C29_ReloadKeepsValid ==
  Revalidated /\ Len(validation.saved.errors) = 0 => Len(validation.reloaded.errors) = 0

\* the part the code keeps: a valid configuration whose button actions are all
\* of type key, gesture or changeDPI stays valid
ReloadKeepsValidKeys ==
  Revalidated /\ Len(validation.saved.errors) = 0
    /\ "buttons" \in DOMAIN origin.config.devices[1]
    /\ (\A i \in 1..Len(origin.config.devices[1].buttons.e) :
          Get(Get(origin.config.devices[1].buttons.e[i], <<"a", "c", "t", "i", "o", "n">>), <<"t", "y", "p", "e">>)
            \in {StrV(<<"k", "e", "y">>), StrV(<<"g", "e", "s", "t", "u", "r", "e">>), StrV(<<"c", "h", "a", "n", "g", "e", "D", "P", "I">>)})
    => Len(validation.reloaded.errors) = 0

----------------------------------------------------------------------------
(* Properties of the state container, under ReducerSpec *)

\* UNDO has just been dispatched in a state where undo was available
Undone ==
  /\ app.last.type = "UNDO"
  /\ canUndo(app.before.state)

\* the state REDO gives right after the UNDO
Redone == appReducer(app.state, [type |-> "REDO"])

\* UNDO makes the configuration current before the last edit current again
UndoRestoresPrevious ==
  Undone =>
    /\ Len(app.before.undoable) > 0
    /\ app.state.currentConfiguration = app.before.undoable[Len(app.before.undoable)]

\* REDO right after UNDO restores currentConfiguration, past and future
RedoRestoresUndone ==
  Undone =>
    /\ Redone.currentConfiguration = app.before.state.currentConfiguration
    /\ Redone.history.past = app.before.state.history.past
    /\ Redone.history.future = app.before.state.history.future

\* C25: wherever undo is available, UNDO makes the configuration that was
\* current before the last edit current again, REDO right after it restores
\* currentConfiguration, history.past and history.future to what they were
\* before the UNDO, and canUndo and canRedo tell whether past and future are
\* non-empty.
C25_UndoThenRedo ==
  /\ UndoRestoresPrevious
  /\ RedoRestoresUndone
  /\ canUndo(app.state) = (app.state.history.past # <<>>)
  /\ canRedo(app.state) = (app.state.history.future # <<>>)

\* the part the code keeps: REDO restores what UNDO undid when a
\* configuration was current
RedoRestoresConfiguration ==
  Undone /\ app.before.state.currentConfiguration # Null
    => /\ Redone.currentConfiguration = app.before.state.currentConfiguration
       /\ Redone.history.past = app.before.state.history.past
       /\ Redone.history.future = app.before.state.history.future


\* C27: in every state reachable by the reducer's actions history.present is
\* currentConfiguration, both null or the same configuration, so the actions
\* that push currentConfiguration and those that push history.present record
\* the same value.
C27_PresentIsCurrent == app.state.history.present = app.state.currentConfiguration

\* a configuration made current by REDO after an update and its UNDO
C27_Witness ==
  /\ app.last.type = "REDO"
  /\ canRedo(app.before.state)
  /\ app.state.currentConfiguration # Null
  /\ Len(app.state.currentConfiguration.devices) = 2
  /\ app.state.history.present = app.state.currentConfiguration


\* the paths of recentFiles are pairwise distinct
RecentFilesDistinct ==
  \A i, j \in 1..Len(app.state.recentFiles) :
    i # j => app.state.recentFiles[i].path # app.state.recentFiles[j].path

\* the path added last is first
LastAddedFirst ==
  app.added # "" =>
    /\ Len(app.state.recentFiles) > 0
    /\ app.state.recentFiles[1].path = app.added

\* recentFiles is no longer than the limit of the preferences
RecentFilesWithinLimit == Len(app.state.recentFiles) <= app.state.preferences.recentFilesLimit

\* C28: in every state reachable by the reducer's actions recentFiles holds
\* pairwise distinct paths, has at most preferences.recentFilesLimit entries,
\* and the most recently added path is first.
C28_RecentFilesKept ==
  /\ RecentFilesDistinct
  /\ RecentFilesWithinLimit
  /\ LastAddedFirst

\* the part the code keeps: the limit holds right after ADD_RECENT_FILE
WithinLimitWhenAdded == app.last.type = "ADD_RECENT_FILE" => RecentFilesWithinLimit

----------------------------------------------------------------------------
(* FileManager: the preferences of the renderer and the preferences file *)
(* of the main process                                                    *)

\* getDefaultPreferences()
getDefaultPreferences ==
  [autoSave |-> FALSE, autoSaveInterval |-> 5, theme |-> "system", recentFilesLimit |-> 10,
   showTooltips |-> TRUE, validateOnType |-> TRUE]

\* the reply of the 'preferences:get' handler: the parsed file, or the
\* defaults with no recent files when the file cannot be read or parsed
PreferencesGet(file) ==
  IF file = Null
  THEN [success |-> TRUE, preferences |-> Merge(getDefaultPreferences, [recentFiles |-> <<>>])]
  ELSE [success |-> TRUE, preferences |-> file]

\* the continuation of loadPreferences after await getPreferences(), a file
\* holding a recentFiles list whenever it holds preferences
Loaded(m, result) ==
  IF result.success
  THEN [m EXCEPT !.preferences = Merge(getDefaultPreferences, result.preferences),
                 !.recentFiles = result.preferences.recentFiles,
                 !.autoSaveEnabled = Merge(getDefaultPreferences, result.preferences).autoSave]
  ELSE m

\* preferencesToSave of savePreferences
PreferencesToSave(m) == Merge(m.preferences, [recentFiles |-> m.recentFiles])

\* addToRecentFiles up to the call of savePreferences (lastOpened is left out)
AddedToRecentFiles(m, path) ==
  LET unshifted == <<path>> \o Filter(m.recentFiles, Range(m.recentFiles) \ {path})
  IN IF Len(unshifted) > m.preferences.recentFilesLimit
     THEN Slice(unshifted, m.preferences.recentFilesLimit)
     ELSE unshifted

----------------------------------------------------------------------------
(* The calls on a FileManager and the handlers of the main process *)

\* most files opened in one behaviour
MaxOpened == 1

\* the preferences files found at start-up: none, and files saved earlier
StoredFiles ==
  {Null,
   Merge(getDefaultPreferences, [recentFiles |-> <<>>]),
   Merge(getDefaultPreferences, [recentFiles |-> <<"/old.cfg">>]),
   Merge(getDefaultPreferences, [theme |-> "light", recentFiles |-> <<"/old.cfg">>])}

UpdatePayloads ==
  {[autoSave |-> TRUE, theme |-> "dark"], [theme |-> "dark"], [recentFilesLimit |-> 5],
   [showTooltips |-> FALSE]}

FileManagerInit ==
  /\ IdlePipeline
  /\ checked = Undefined
  /\ app = Undefined
  /\ calls = Undefined
  /\ \E file \in StoredFiles :
       manager = [preferences |-> getDefaultPreferences,
                  recentFiles |-> <<>>,
                  autoSaveEnabled |-> FALSE,
                  file |-> file,
                  load |-> "requested",
                  result |-> Null,
                  update |-> "idle",
                  newPreferences |-> Null,
                  writes |-> <<>>,
                  opened |-> <<>>]

\* the constructor has set the defaults and called loadPreferences, which
\* waits for getPreferences()

\* 'preferences:get' in the main process reads the file
PreferencesGetHandler ==
  /\ manager.load = "requested"
  /\ manager' = [manager EXCEPT !.load = "replied", !.result = PreferencesGet(manager.file)]
  /\ UNCHANGED <<pipeline, checked, app, calls>>

\* 'preferences:get' reads the file while 'preferences:set' is writing it:
\* what it reads does not parse
PreferencesGetTorn ==
  /\ manager.load = "requested"
  /\ Len(manager.writes) > 0
  /\ manager' = [manager EXCEPT !.load = "replied", !.result = PreferencesGet(Null)]
  /\ UNCHANGED <<pipeline, checked, app, calls>>

\* loadPreferences resumes with the reply
LoadPreferences ==
  /\ manager.load = "replied"
  /\ manager' = [Loaded(manager, manager.result) EXCEPT !.load = "done"]
  /\ UNCHANGED <<pipeline, checked, app, calls>>

\* updatePreferences(newPreferences) up to await savePreferences()
UpdatePreferences ==
  /\ manager.update = "idle"
  /\ \E newPreferences \in UpdatePayloads :
       LET merged == [manager EXCEPT !.preferences = Merge(manager.preferences, newPreferences)]
       IN manager' = [merged EXCEPT !.update = "saving",
                                    !.newPreferences = newPreferences,
                                    !.writes = Append(manager.writes,
                                                      [by |-> "update",
                                                       preferences |-> PreferencesToSave(merged)])]
  /\ UNCHANGED <<pipeline, checked, app, calls>>

\* openFile or saveFile reaches addToRecentFiles(fileInfo), which calls
\* savePreferences without waiting for it
AddToRecentFiles ==
  /\ Len(manager.opened) < MaxOpened
  /\ \E path \in {"/a.cfg", "/old.cfg"} :
       LET added == [manager EXCEPT !.recentFiles = AddedToRecentFiles(manager, path)]
       IN manager' = [added EXCEPT !.opened = Append(manager.opened, path),
                                   !.writes = Append(manager.writes,
                                                     [by |-> "recent",
                                                      preferences |-> PreferencesToSave(added)])]
  /\ UNCHANGED <<pipeline, checked, app, calls>>

\* 'preferences:set' in the main process writes the file, and the call of
\* savePreferences that sent it resumes: updatePreferences goes on to
\* updateAutoSaveState
PreferencesSetHandler ==
  /\ Len(manager.writes) > 0
  /\ manager' = [manager EXCEPT
                   !.file = Head(manager.writes).preferences,
                   !.writes = Tail(manager.writes),
                   !.update = IF Head(manager.writes).by = "update" THEN "done" ELSE @,
                   !.autoSaveEnabled = IF Head(manager.writes).by = "update"
                                       THEN manager.preferences.autoSave ELSE @]
  /\ UNCHANGED <<pipeline, checked, app, calls>>

FileManagerNext ==
  \/ PreferencesGetHandler
  \/ PreferencesGetTorn
  \/ LoadPreferences
  \/ UpdatePreferences
  \/ AddToRecentFiles
  \/ PreferencesSetHandler

FileManagerSpec == FileManagerInit /\ [][FileManagerNext]_vars

----------------------------------------------------------------------------
(* Properties of the FileManager *)

\* loadPreferences of the constructor and updatePreferences have completed
BothCompleted == manager.load = "done" /\ manager.update = "done"

\* getPreferences() returns the fields of newPreferences
UpdateKept ==
  \A key \in DOMAIN manager.newPreferences :
    manager.preferences[key] = manager.newPreferences[key]

\* getRecentFiles() has the files opened since the constructor
OpenedKept == \A i \in 1..Len(manager.opened) : manager.opened[i] \in Range(manager.recentFiles)

\* C26: in every interleaving of the loadPreferences started by the
\* constructor with a call of updatePreferences(p), once both have completed
\* getPreferences() returns the fields of p and the recent-files list has not
\* been reset by the late load.
C26_UpdateSurvivesLoad == BothCompleted => UpdateKept /\ OpenedKept

----------------------------------------------------------------------------
(* libconfigParser: the generic parser, one activation and one loop *)
(* iteration at a time                                              *)

\* the activation of parseValue, parseObject or parseArray called with index:
\* its index variable, the index at the head of the loop iteration last
\* begun, its obj or arr, its key, and whether it waits for a call to return
Frame(fn, index) ==
  [fn |-> fn, called |-> index, index |-> index, start |-> -1,
   value |-> <<>>, key |-> <<>>, waiting |-> FALSE]

\* what an activation does next: return, throw, call, or go round its loop
Returning(value, nextIndex) == [does |-> "return", value |-> value, nextIndex |-> nextIndex]

Raising(err) == [does |-> "throw", err |-> err]

Calling(frame, fn, index) ==
  [does |-> "call", frame |-> [frame EXCEPT !.waiting = TRUE], fn |-> fn, index |-> index]

Looping(frame) == [does |-> "loop", frame |-> [frame EXCEPT !.waiting = FALSE]]

\* parseValue up to its return, throw or call
parseValueStep(toks, frame) ==
  LET index == frame.index IN
  IF index >= Len(toks) THEN Raising(Error(<<Lit("Unexpected end of input")>>))
  ELSE LET token == toks[index + 1] IN
       IF token.type = "string" THEN Returning(StrV(token.value), index + 1)
       ELSE IF token.type = "number"
         THEN Returning(IF startsWith(token.value, <<"0", "x">>)
                        THEN StrV(token.value) ELSE parseFloat(token.value), index + 1)
       ELSE IF token.type = "boolean"
         THEN Returning(BoolV(token.value = <<"t", "r", "u", "e">>), index + 1)
       ELSE IF IsDelimiter(token, "{") THEN Calling(frame, "parseObject", index + 1)
       ELSE IF IsDelimiter(token, "(") THEN Calling(frame, "parseArray", index + 1)
       ELSE Raising(Error(<<Lit("Unexpected token: "), Chars(token.value),
                            Lit(" at line "), Num(token.line)>>))

\* the loop of parseObject without the index++ of its else branch
parseObjectStep_NoSkip(toks, frame) ==
  LET index == frame.index IN
  IF index < Len(toks)
  THEN LET token == toks[index + 1] IN
       IF IsDelimiter(token, "}") THEN Returning(ObjV(frame.value), index + 1)
       ELSE IF token.type = "identifier"
       THEN IF \/ index + 1 >= Len(toks)
               \/ toks[index + 2].type # "operator"
               \/ (toks[index + 2].value # <<":">> /\ toks[index + 2].value # <<"=">>)
            THEN Raising(Error(<<Lit("Expected : or = after "), Chars(token.value),
                                 Lit(" at line "), Num(token.line)>>))
            ELSE Calling([frame EXCEPT !.start = index, !.key = token.value,
                                       !.index = index + 2],
                         "parseValue", index + 2)
       ELSE Looping([frame EXCEPT !.start = index])
  ELSE Returning(ObjV(frame.value), index)

\* one iteration of the loop of parseObject up to its return, throw, call
\* of parseValue or end, and the return after the loop
parseObjectStep(toks, frame) ==
  LET index == frame.index IN
  IF index < Len(toks)
  THEN LET token == toks[index + 1] IN
       IF IsDelimiter(token, "}") THEN Returning(ObjV(frame.value), index + 1)
       ELSE IF token.type = "identifier"
       THEN IF \/ index + 1 >= Len(toks)
               \/ toks[index + 2].type # "operator"
               \/ (toks[index + 2].value # <<":">> /\ toks[index + 2].value # <<"=">>)
            THEN Raising(Error(<<Lit("Expected : or = after "), Chars(token.value),
                                 Lit(" at line "), Num(token.line)>>))
            ELSE Calling([frame EXCEPT !.start = index, !.key = token.value,
                                       !.index = index + 2],
                         "parseValue", index + 2)
       ELSE Looping([frame EXCEPT !.start = index, !.index = index + 1])
  ELSE Returning(ObjV(frame.value), index)

\* the rest of the iteration of parseObject once parseValue has returned
parseObjectResume(toks, frame, result) ==
  Looping([frame EXCEPT !.value = SetKey(frame.value, frame.key, result.value),
                        !.index = SkipOptional(toks, result.nextIndex, {";", ","})])

\* one iteration of the loop of parseArray up to its return or call of
\* parseValue, and the throw after the loop
parseArrayStep(toks, frame) ==
  LET index == frame.index IN
  IF index < Len(toks)
  THEN IF IsDelimiter(toks[index + 1], ")") THEN Returning(ArrV(frame.value), index + 1)
       ELSE Calling([frame EXCEPT !.start = index], "parseValue", index)
  ELSE Raising(Error(<<Lit("Unterminated array")>>))

\* the rest of the iteration of parseArray once parseValue has returned
parseArrayResume(toks, frame, result) ==
  Looping([frame EXCEPT !.value = Append(frame.value, result.value),
                        !.index = SkipOptional(toks, result.nextIndex, {","})])

----------------------------------------------------------------------------
(* The activations of the generic parser on a token list *)

\* longest token list
MaxTokens == 4

TokenKinds ==
  {[type |-> "string", value |-> <<"s">>], [type |-> "number", value |-> <<"1">>],
   [type |-> "boolean", value |-> <<"t", "r", "u", "e">>], [type |-> "identifier", value |-> <<"a">>],
   [type |-> "operator", value |-> <<"=">>], [type |-> "delimiter", value |-> <<"{">>],
   [type |-> "delimiter", value |-> <<"}">>], [type |-> "delimiter", value |-> <<"(">>],
   [type |-> "delimiter", value |-> <<")">>], [type |-> "delimiter", value |-> <<";">>],
   [type |-> "delimiter", value |-> <<",">>]}

\* every list of at most MaxTokens tokens, all on line 1
TokenLists ==
  {[i \in 1..Len(kinds) |-> Token(kinds[i].type, kinds[i].value, 1, i)] :
     kinds \in UNION {[1..n -> TokenKinds] : n \in 0..MaxTokens}}

\* parseLibconfig calls parseObject or parseValue at index 0
ParserInit ==
  /\ IdlePipeline
  /\ checked = Undefined
  /\ app = Undefined
  /\ manager = Undefined
  /\ \E toks \in TokenLists :
       calls = [tokens |-> toks,
                stack |-> <<Frame(IF Len(toks) > 0 /\ toks[1].type = "identifier"
                                  THEN "parseObject" ELSE "parseValue", 0)>>,
                returned |-> Undefined,
                outcome |-> Undefined]

Top == calls.stack[Len(calls.stack)]

Callers == SubSeq(calls.stack, 1, Len(calls.stack) - 1)

\* the activation on top of the stack does step: a return hands value and
\* nextIndex to the caller, a throw ends every activation (none catches)
Does(step) ==
  /\ calls' =
       CASE step.does = "return" ->
              [calls EXCEPT !.stack = Callers,
                            !.returned = [fn |-> Top.fn, index |-> Top.called,
                                          value |-> step.value,
                                          nextIndex |-> step.nextIndex],
                            !.outcome = IF Len(calls.stack) = 1
                                        THEN Return(step.value, step.nextIndex) ELSE @]
         [] step.does = "throw" ->
              [calls EXCEPT !.stack = <<>>, !.returned = Undefined,
                            !.outcome = Throw(step.err)]
         [] step.does = "call" ->
              [calls EXCEPT !.stack = Callers \o <<step.frame, Frame(step.fn, step.index)>>,
                            !.returned = Undefined]
         [] step.does = "loop" ->
              [calls EXCEPT !.stack = Append(Callers, step.frame), !.returned = Undefined]
  /\ UNCHANGED <<pipeline, checked, app, manager>>

Active(fn, waiting) ==
  /\ Len(calls.stack) > 0
  /\ Top.fn = fn
  /\ Top.waiting = waiting

ParseValue ==
  /\ Active("parseValue", FALSE)
  /\ Does(parseValueStep(calls.tokens, Top))

\* return parseObject(tokens, index + 1) and return parseArray(tokens, index + 1)
ParseValueReturn ==
  /\ Active("parseValue", TRUE)
  /\ Does(Returning(calls.returned.value, calls.returned.nextIndex))

ParseObject ==
  /\ Active("parseObject", FALSE)
  /\ Does(parseObjectStep(calls.tokens, Top))

ParseObjectResume ==
  /\ Active("parseObject", TRUE)
  /\ Does(parseObjectResume(calls.tokens, Top, calls.returned))

ParseArray ==
  /\ Active("parseArray", FALSE)
  /\ Does(parseArrayStep(calls.tokens, Top))

ParseArrayResume ==
  /\ Active("parseArray", TRUE)
  /\ Does(parseArrayResume(calls.tokens, Top, calls.returned))

ParserNext ==
  \/ ParseValue
  \/ ParseValueReturn
  \/ ParseObject
  \/ ParseObjectResume
  \/ ParseArray
  \/ ParseArrayResume

ParserSpec == ParserInit /\ [][ParserNext]_vars

\* the parser runs on one thread without waiting for anything: an
\* activation that can take its next step takes it
ParserFairSpec == ParserSpec /\ WF_vars(ParserNext)

----------------------------------------------------------------------------
(* Properties of the activations of the generic parser *)

ParserDone == calls.outcome # Undefined

\* what the activations return or throw is what parseTokens returns or throws
StepsAgree == ParserDone => calls.outcome = parseTokens(calls.tokens)

\* an activation of parseObject or parseArray at the head of its loop has an
\* index greater than at the head of the iteration before
LoopsAdvance ==
  \A i \in 1..Len(calls.stack) :
    (calls.stack[i].fn \in {"parseObject", "parseArray"} /\ ~calls.stack[i].waiting)
      => calls.stack[i].start < calls.stack[i].index

ValueReturned == calls.returned # Undefined /\ calls.returned.fn = "parseValue"

\* the nextIndex parseValue returns is greater than the index of the call
\* and at most the number of tokens
ValueAdvances ==
  ValueReturned => /\ calls.returned.index < calls.returned.nextIndex
                   /\ calls.returned.nextIndex <= Len(calls.tokens)

\* C30: the generic parser terminates on every token list: each iteration of
\* the loops of parseObject and parseArray returns, throws or ends with a
\* greater token index, and every nextIndex returned by parseValue is
\* greater than the index it was called with and at most the number of
\* tokens.
C30_ParserTerminates == <>ParserDone /\ [](LoopsAdvance /\ ValueAdvances)

\* parseValue has returned the array of one empty object, read from four
\* tokens by the loops of parseArray and parseObject
C30_Witness ==
  /\ ParserDone
  /\ calls.outcome.ok
  /\ ValueReturned
  /\ calls.outcome.value = ArrV(<<ObjV(<<>>)>>)
  /\ calls.outcome.nextIndex = 4
  /\ Len(calls.tokens) = 4

=============================================================================
